---- MODULE Spec2Model ----
(***************************************************************************)
(* Link-generation engine of the panel (web/util/link.go and the           *)
(* controller copy of the same encoders).                                  *)
(*                                                                         *)
(* A Go string is a finite sequence of atoms.  An atom is either one of    *)
(* the characters the URL and JSON machinery treats specially ("#", "?",   *)
(* "/", "@", ":", "=", "&", ",", "-", "%xx" escapes, ...) or an opaque run  *)
(* of characters none of which is special ("1.2.3.4", "alice").            *)
(* Concatenation is \o, the empty string is << >>.                         *)
(*                                                                         *)
(* A decoded JSON value (Go's "any") is a tagged record.                   *)
(***************************************************************************)
EXTENDS Integers, Sequences, FiniteSets, TLC

VARIABLES inbound, email, address, pc, op, res1, res2,
          gen,        \* arguments and result of GenerateClientDefaults
          response,   \* what addInboundClientWithLink answered
          web,        \* one request to a route under /panel/api
          calls       \* encode calls running concurrently

vars == <<inbound, email, address, pc, op, res1, res2, gen, response, web, calls>>

----------------------------------------------------------------------------
(* Strings *)

IndexOf(s, a) ==
    IF \E i \in 1..Len(s) : s[i] = a
    THEN CHOOSE i \in 1..Len(s) : s[i] = a /\ \A j \in 1..(i - 1) : s[j] # a
    ELSE 0

LastIndexOf(s, a) ==
    IF \E i \in 1..Len(s) : s[i] = a
    THEN CHOOSE i \in 1..Len(s) : s[i] = a /\ \A j \in (i + 1)..Len(s) : s[j] # a
    ELSE 0

Before(s, i) == SubSeq(s, 1, i - 1)
After(s, i) == SubSeq(s, i + 1, Len(s))

RECURSIVE Join(_, _)
Join(parts, sep) ==
    IF Len(parts) = 0 THEN << >>
    ELSE IF Len(parts) = 1 THEN parts[1]
    ELSE parts[1] \o sep \o Join(Tail(parts), sep)

----------------------------------------------------------------------------
(* Decoded JSON values *)

Null == [t |-> "null"]
JStr(s) == [t |-> "str", s |-> s]
JNum(n) == [t |-> "num", n |-> n]
JBool(b) == [t |-> "bool", b |-> b]
JArr(a) == [t |-> "arr", a |-> a]
JObj(o) == [t |-> "obj", o |-> o]
EmptyObj == JObj(<< >>)

(* m[k] on a map that may be nil: the zero value when the map is nil or   *)
(* the key is missing.                                                    *)
Field(m, k) == IF m.t = "obj" /\ k \in DOMAIN m.o THEN m.o[k] ELSE Null

(* v, _ := x.(map[string]any)  /  x.(string)  /  x.([]any)  /  x.(bool)    *)
AsMap(v) == IF v.t = "obj" THEN v ELSE Null
StrOr(v) == IF v.t = "str" THEN v.s ELSE << >>
ArrOr(v) == IF v.t = "arr" THEN v.a ELSE << >>
BoolOr(v) == IF v.t = "bool" THEN v.b ELSE FALSE

Put(m, k, v) == (k :> v) @@ m
NoParams == << >>

----------------------------------------------------------------------------
(* json.Unmarshal([]byte(text), &m) with m a nil map[string]any: m stays   *)
(* nil when the text is not valid JSON or is not a JSON object; the error  *)
(* is discarded by every caller.                                           *)

InvalidJSON == [t |-> "invalid"]

Unmarshal(doc) == IF doc.t = "obj" THEN doc ELSE Null

----------------------------------------------------------------------------
(* searchKey: the set of results the call can return.  Go ranges over a    *)
(* map in an unspecified order, so any key whose own name or whose subtree *)
(* matches can be the one the loop reaches first.                          *)

NotFound == [ok |-> FALSE, v |-> Null]

(* the search without the case for lists *)
RECURSIVE searchKeyNoLists(_, _)
searchKeyNoLists(data, key) ==
    IF data.t = "obj"
    THEN LET hits == {k \in DOMAIN data.o :
                         k = key \/ \E r \in searchKeyNoLists(data.o[k], key) : r.ok}
         IN  IF hits = {} THEN {NotFound}
             ELSE UNION {IF k = key THEN {[ok |-> TRUE, v |-> data.o[k]]}
                                    ELSE searchKeyNoLists(data.o[k], key) : k \in hits}
    ELSE {NotFound}

RECURSIVE searchKey(_, _)
searchKey(data, key) ==
    CASE data.t = "obj" ->
            LET hits == {k \in DOMAIN data.o :
                            k = key \/ \E r \in searchKey(data.o[k], key) : r.ok}
            IN  IF hits = {} THEN {NotFound}
                ELSE UNION {IF k = key THEN {[ok |-> TRUE, v |-> data.o[k]]}
                                       ELSE searchKey(data.o[k], key) : k \in hits}
      [] data.t = "arr" ->
            LET hits == {i \in 1..Len(data.a) : \E r \in searchKey(data.a[i], key) : r.ok}
            IN  IF hits = {} THEN {NotFound}
                ELSE searchKey(data.a[CHOOSE i \in hits : \A j \in hits : i <= j], key)
      [] OTHER -> {NotFound}

Good(s) == [panic |-> FALSE, s |-> s]
Bad == [panic |-> TRUE, s |-> << >>]

(* the search that takes the key "host" in that spelling only *)
searchHostExact(headers) ==
    LET data == AsMap(headers)
        v == Field(data, "host")
    IN  IF v.t = "null" THEN {Good(<< >>)}
        ELSE IF v.t = "arr"
        THEN IF Len(v.a) > 0
             THEN IF v.a[1].t = "str" THEN {Good(v.a[1].s)} ELSE {Bad}
             ELSE {Good(<< >>)}
        ELSE IF v.t = "str" THEN {Good(v.s)} ELSE {Bad}

(* searchHost: the set of outcomes; a nil header value matches no case of  *)
(* the type switch and the loop goes on.                                   *)
searchHost(headers) ==
    LET (* One matching header value: a list yields its first element (asserted    *)
        (* to be a string), anything else is asserted to be a string.              *)
        hostValue(v) ==
                IF v.t = "arr"
                THEN IF Len(v.a) > 0
                     THEN IF v.a[1].t = "str" THEN Good(v.a[1].s) ELSE Bad
                     ELSE Good(<< >>)
                ELSE IF v.t = "str" THEN Good(v.s) ELSE Bad
        (* strings.EqualFold(k, "host") on the header names the model uses *)
        EqualFoldHost(k) ==
                k \in {"host", "Host", "HOST"}
        data == AsMap(headers)
        ks == IF data.t = "obj"
              THEN {k \in DOMAIN data.o : EqualFoldHost(k) /\ data.o[k].t # "null"}
              ELSE {}
    IN  IF ks = {} THEN {Good(<< >>)} ELSE {hostValue(data.o[k]) : k \in ks}

(* the remark with a separator after every part but the last, empty or not *)
genRemarkAllParts(inb, mail, extra) ==
    inb.Remark \o <<"-">> \o mail \o (IF Len(extra) > 0 THEN <<"-">> \o extra ELSE << >>)

(* genRemark of web/util/link.go *)
genRemark(inb, mail, extra) ==
    LET r0 == inb.Remark
        r1 == IF Len(mail) > 0
              THEN IF Len(r0) > 0 THEN r0 \o <<"-">> \o mail ELSE mail
              ELSE r0
    IN  IF Len(extra) > 0
        THEN IF Len(r1) > 0 THEN r1 \o <<"-">> \o extra ELSE extra
        ELSE r1

(* genRemark of the controller.  now is time.Now().Unix(); a traffic       *)
(* record is [Email, Enable, Total, Up, Down, ExpiryTime].  Quo and Rem    *)
(* are Go's / and % on integers, which truncate toward zero.  The emoji    *)
(* of the format strings are written as words in brackets, and the text of *)
(* common.FormatTraffic as the number of bytes followed by "B".            *)
genRemarkCtl(inb, mail, extra, clientStats, showInfo, now) ==
    LET Abs(x) == IF x < 0 THEN 0 - x ELSE x
        Quo(x, y) == IF (x < 0) = (y < 0) THEN Abs(x) \div Abs(y) ELSE 0 - (Abs(x) \div Abs(y))
        Rem(x, y) == x - y * Quo(x, y)
        FormatTraffic(vol) == <<ToString(vol), "B">>
        Left(days, hours, minutes) ==
            IF days > 0
            THEN IF hours > 0
                 THEN <<ToString(days), "D", ",", ToString(hours), "H", "[hourglass]">>
                 ELSE <<ToString(days), "D", "[hourglass]">>
            ELSE IF hours > 0 THEN <<ToString(hours), "H", "[hourglass]">>
            ELSE <<ToString(minutes), "M", "[hourglass]">>
        remark == (IF Len(inb.Remark) > 0 THEN <<inb.Remark>> ELSE << >>)
                  \o (IF Len(mail) > 0 THEN <<mail>> ELSE << >>)
                  \o (IF Len(extra) > 0 THEN <<extra>> ELSE << >>)
        found == {i \in 1..Len(clientStats) : clientStats[i].Email = mail}
        stats == clientStats[CHOOSE i \in found : \A j \in found : i <= j]
        vol == stats.Total - (stats.Up + stats.Down)
        quota == IF vol > 0 THEN <<FormatTraffic(vol) \o <<"[chart]">>>> ELSE << >>
        exp == Quo(stats.ExpiryTime, 1000)
        remainingSeconds == exp - now
        time == IF exp > 0
                THEN <<Left(Quo(remainingSeconds, 86400),
                            Quo(Rem(remainingSeconds, 86400), 3600),
                            Quo(Rem(remainingSeconds, 3600), 60))>>
                ELSE IF exp < 0
                THEN <<Left(Quo(exp, 0 - 86400),
                            Quo(Rem(exp, 0 - 86400), 3600),
                            Quo(Rem(exp, 0 - 3600), 60))>>
                ELSE << >>
    IN  IF ~showInfo \/ found = {} THEN Join(remark, <<" ">>)
        ELSE IF ~stats.Enable THEN <<"[no-entry]N/A", " ">> \o Join(remark, <<" ">>)
        ELSE Join(remark \o quota \o time, <<" ">>)

(* the call of the encoders: the controller passes showInfo = false *)
Remark(util, inb, mail, extra) ==
    IF util THEN genRemark(inb, mail, extra)
    ELSE genRemarkCtl(inb, mail, extra, << >>, FALSE, 0)

----------------------------------------------------------------------------
(* Client lists *)

(* One element of "clients" decoded into model.Client: a field of the      *)
(* wrong JSON type is skipped and keeps its zero value.                    *)
toClient(v) ==
    [Email    |-> StrOr(Field(v, "email")),
     ID       |-> StrOr(Field(v, "id")),
     Password |-> StrOr(Field(v, "password")),
     Flow     |-> StrOr(Field(v, "flow")),
     Security |-> StrOr(Field(v, "security")),
     hasEmail |-> Field(v, "email").t = "str"]

(* getClients of web/util/link.go (decode into map[string][]model.Client)  *)
(* and the inline client loop of the controller (decode into               *)
(* map[string]any); both give the list of decoded clients, empty when the  *)
(* text does not decode or has no "clients" array.                         *)
getClients(inb) ==
    LET c == Field(Unmarshal(inb.Settings), "clients")
    IN  IF c.t = "arr" THEN [i \in 1..Len(c.a) |-> toClient(c.a[i])] ELSE << >>

(* The client loop: index of the first client with the email, 0 when none. *)
(* The util copy compares the decoded Email field (empty when absent), the  *)
(* controller copy requires the field to be present and a string.          *)
clientIndexLast(util, clients, mail) ==
    LET m == {i \in 1..Len(clients) :
                 clients[i].Email = mail /\ (util \/ clients[i].hasEmail)}
    IN  IF m = {} THEN 0 ELSE CHOOSE i \in m : \A j \in m : i >= j

clientIndex(util, clients, mail) ==
    LET m == {i \in 1..Len(clients) :
                 clients[i].Email = mail /\ (util \/ clients[i].hasEmail)}
    IN  IF m = {} THEN 0 ELSE CHOOSE i \in m : \A j \in m : i <= j

----------------------------------------------------------------------------
(* net/url, encoding/base64 and encoding/json as the encoders use them     *)

(* percent-decoding *)
Unesc(s) ==
    LET one(a) ==
        CASE a = "%2F" -> "/" [] a = "%3A" -> ":" [] a = "%40" -> "@"
          [] a = "%2C" -> "," [] a = "%23" -> "#" [] a = "%3F" -> "?"
          [] a = "%3D" -> "=" [] a = "%26" -> "&" [] a = "%20" -> " "
          [] OTHER -> a
    IN  [i \in 1..Len(s) |-> one(s[i])]

(* url.Parse on a text "scheme://..." built by fmt.Sprintf: the fragment   *)
(* is cut at the first '#', the query at the first '?', the authority runs *)
(* to the first '/', the userinfo ends at the last '@' of the authority.   *)
parseAuthority(scheme, authority, path, query, frag) ==
    LET ai == LastIndexOf(authority, "@")
    IN  [Scheme |-> scheme,
         HasUser |-> ai # 0,
         User |-> IF ai = 0 THEN << >> ELSE Unesc(Before(authority, ai)),
         Host |-> IF ai = 0 THEN authority ELSE After(authority, ai),
         Path |-> path,
         RawQuery |-> query,
         Fragment |-> Unesc(frag)]

(* rest is "//authority" followed by the path *)
parseHier(scheme, rest, query, frag) ==
    LET auth0 == SubSeq(rest, 3, Len(rest))
        si == IndexOf(auth0, "/")
    IN  parseAuthority(scheme,
                       IF si = 0 THEN auth0 ELSE Before(auth0, si),
                       IF si = 0 THEN << >> ELSE SubSeq(auth0, si, Len(auth0)),
                       query, frag)

(* u is the text before the fragment: scheme, ':' and the rest *)
parseNoFragment(u, frag) ==
    LET rest0 == SubSeq(u, 3, Len(u))
        qi == IndexOf(rest0, "?")
    IN  parseHier(u[1],
                  IF qi = 0 THEN rest0 ELSE Before(rest0, qi),
                  IF qi = 0 THEN << >> ELSE After(rest0, qi),
                  frag)

UrlParse(raw) ==
    LET hi == IndexOf(raw, "#")
    IN  parseNoFragment(IF hi = 0 THEN raw ELSE Before(raw, hi),
                        IF hi = 0 THEN << >> ELSE After(raw, hi))

(* URL.String *)
UrlString(u) ==
    LET (* escaping of the fragment: reserved characters stay, '#' and ' ' do not *)
        EscFrag(frag) ==
                LET esc(c) ==    CASE c = "#" -> "%23" [] c = " " -> "%20" [] OTHER -> c
                IN  [i \in 1..Len(frag) |-> esc(frag[i])]
        (* Userinfo.String: user name and password escaped, the separating ':' kept *)
        UserString(user) ==
                LET (* escaping of the userinfo part: '@', '/', '?', ':' and the characters    *)
                    (* outside the reserved and unreserved sets                                *)
                    EscUser(text) ==
                            LET one(c) ==
                                CASE c = "/" -> "%2F" [] c = ":" -> "%3A" [] c = "@" -> "%40"
                                  [] c = "?" -> "%3F" [] c = "#" -> "%23" [] c = " " -> "%20"
                                  [] OTHER -> c
                            IN  [i \in 1..Len(text) |-> one(text[i])]
                IN  LET ci == IndexOf(user, ":")
                    IN  IF ci = 0 THEN EscUser(user)
                        ELSE EscUser(Before(user, ci)) \o <<":">>
                             \o EscUser(After(user, ci))
    IN  <<u.Scheme, ":">>
        \o (IF Len(u.Host) > 0 \/ Len(u.Path) > 0 \/ u.HasUser THEN <<"/", "/">> ELSE << >>)
        \o (IF u.HasUser THEN UserString(u.User) \o <<"@">> ELSE << >>)
        \o u.Host
        \o u.Path
        \o (IF Len(u.RawQuery) > 0 THEN <<"?">> \o u.RawQuery ELSE << >>)
        \o (IF Len(u.Fragment) > 0 THEN <<"#">> \o EscFrag(u.Fragment) ELSE << >>)

(* url.ParseQuery: "k=v" pairs separated by '&'; a key maps to its value *)
RECURSIVE ParseQuery(_)
ParseQuery(q) ==
    LET UnescQuery(text) ==
                LET one(c) == IF c = "+" THEN " " ELSE Unesc(<<c>>)[1]
                IN  [i \in 1..Len(text) |-> one(text[i])]
    IN  IF Len(q) = 0 THEN NoParams
        ELSE LET ai == IndexOf(q, "&")
                 pair == IF ai = 0 THEN q ELSE Before(q, ai)
                 more == IF ai = 0 THEN << >> ELSE After(q, ai)
                 ei == IndexOf(pair, "=")
                 k == IF ei = 0 THEN pair ELSE Before(pair, ei)
                 v == IF ei = 0 THEN << >> ELSE After(pair, ei)
             IN  IF Len(k) = 0 THEN ParseQuery(more)
                 ELSE ParseQuery(more) @@ (UnescQuery(k)[1] :> UnescQuery(v))

Present(keys, m) == SelectSeq(keys, LAMBDA k : k \in DOMAIN m)

(* url.Values.Encode *)
QueryEncode(q) ==
    LET (* url.QueryEscape, atom by atom: everything but unreserved characters *)
        EscQuery(text) ==
                LET one(c) ==
                    CASE c = "/" -> "%2F" [] c = ":" -> "%3A" [] c = "@" -> "%40"
                      [] c = "," -> "%2C" [] c = "#" -> "%23" [] c = "?" -> "%3F"
                      [] c = "=" -> "%3D" [] c = "&" -> "%26" [] c = " " -> "+"
                      [] OTHER -> c
                IN  [i \in 1..Len(text) |-> one(text[i])]
        (* The parameter names of the links, in the byte order url.Values.Encode   *)
        (* and json.Marshal sort map keys by.                                      *)
        QueryKeys ==
                <<"allowInsecure", "alpn", "authority", "encryption", "flow", "fp",
                  "headerType", "host", "mode", "path", "pbk", "pqv", "security", "seed",
                  "serviceName", "sid", "sni", "spx", "type">>
        ks == Present(QueryKeys, q)
    IN  Join([i \in 1..Len(ks) |->
                 EscQuery(<<ks[i]>>) \o <<"=">> \o EscQuery(q[ks[i]])], <<"&">>)

Base64(s) ==
    LET (* base64.StdEncoding.EncodeToString: an injective encoding; the model     *)
        (* keeps the atoms and replaces the special ones by plain code atoms, so   *)
        (* the result never splits a URL.                                          *)
        B64Enc(text) ==
                LET one(c) ==
                    CASE c = ":" -> "b64:3A" [] c = "#" -> "b64:23" [] c = "/" -> "b64:2F"
                      [] c = "@" -> "b64:40" [] c = "?" -> "b64:3F" [] c = "=" -> "b64:3D"
                      [] c = "&" -> "b64:26" [] c = "," -> "b64:2C" [] c = " " -> "b64:20"
                      [] c = "\"" -> "b64:22" [] c = "{" -> "b64:7B" [] c = "}" -> "b64:7D"
                      [] OTHER -> c
                IN  [i \in 1..Len(text) |-> one(text[i])]
    IN  <<"b64<">> \o B64Enc(s) \o <<">">>
Base64Decode(s) ==
    LET B64Dec(text) ==
                LET one(c) ==
                    CASE c = "b64:3A" -> ":" [] c = "b64:23" -> "#" [] c = "b64:2F" -> "/"
                      [] c = "b64:40" -> "@" [] c = "b64:3F" -> "?" [] c = "b64:3D" -> "="
                      [] c = "b64:26" -> "&" [] c = "b64:2C" -> "," [] c = "b64:20" -> " "
                      [] c = "b64:22" -> "\"" [] c = "b64:7B" -> "{" [] c = "b64:7D" -> "}"
                      [] OTHER -> c
                IN  [i \in 1..Len(text) |-> one(text[i])]
    IN  B64Dec(SubSeq(s, 2, Len(s) - 1))

MarshalIndent(obj) ==
    LET ObjKeys ==
                <<"add", "allowInsecure", "alpn", "authority", "fp", "host", "id", "mode",
                  "net", "path", "port", "ps", "scy", "sni", "tls", "type", "v">>
        JsonValue(v) ==
                LET (* json.MarshalIndent of a flat map[string]any: members in key order *)
                    JsonEsc(text) ==
                            LET one(c) == IF c = "\"" THEN "\\\"" ELSE c
                            IN  [i \in 1..Len(text) |-> one(text[i])]
                IN  CASE v.t = "str" -> <<"\"">> \o JsonEsc(v.s) \o <<"\"">>
                      [] v.t = "num" -> <<ToString(v.n)>>
                      [] v.t = "bool" -> IF v.b THEN <<"true">> ELSE <<"false">>
                      [] OTHER -> <<"null">>
        ks == Present(ObjKeys, obj)
    IN  <<"{">>
        \o Join([i \in 1..Len(ks) |-> <<"\"", ks[i], "\"", ":">> \o JsonValue(obj[ks[i]])],
                <<",">>)
        \o <<"}">>

----------------------------------------------------------------------------
(* Partial results of an encoder: a parameter map, or a run-time panic     *)
(* (failed type assertion, index out of range).  An operator returns the   *)
(* set of results the code can produce.                                    *)

OkP(p) == [panic |-> FALSE, p |-> p]
PanicP == [panic |-> TRUE, p |-> NoParams]

(* b runs after a and overwrites the keys it sets *)
Then(A, B) ==
    {IF a.panic \/ b.panic THEN PanicP ELSE OkP(b.p @@ a.p) : a \in A, b \in B}

(* x[k].(string): panics unless the field is a string *)
MustStr(m, k, as) ==
    IF Field(m, k).t = "str" THEN {OkP(as :> Field(m, k).s)} ELSE {PanicP}

(* x[k].(string) when strict, x, _ := x[k].(string) otherwise *)
StrParam(strict, m, k, as) ==
    IF strict THEN MustStr(m, k, as) ELSE {OkP(as :> StrOr(Field(m, k)))}

(* the host taken from the headers only *)
hostParamHeadersOnly(sobj) ==
    {IF r.panic THEN PanicP ELSE OkP("host" :> r.s)
        : r \in searchHost(AsMap(Field(sobj, "headers")))}

(* host of ws / httpupgrade / xhttp: the transport's own non-empty host,   *)
(* else the host header                                                    *)
hostParam(sobj) ==
    LET h == Field(sobj, "host")
        hs == IF h.t = "str" /\ Len(h.s) > 0
              THEN {Good(h.s)}
              ELSE searchHost(AsMap(Field(sobj, "headers")))
    IN  {IF r.panic THEN PanicP ELSE OkP("host" :> r.s) : r \in hs}

(* tcp with an http header: request path list and host header *)
tcpHttp(header) ==
    LET request == Field(header, "request")
        requestPath == ArrOr(Field(request, "path"))
        hs == searchHost(AsMap(Field(request, "headers")))
    IN  IF request.t # "obj" THEN {PanicP}
        ELSE IF Len(requestPath) = 0 \/ requestPath[1].t # "str" THEN {PanicP}
        ELSE {IF r.panic THEN PanicP
              ELSE OkP(("path" :> requestPath[1].s) @@ ("host" :> r.s)) : r \in hs}

(* the transport switch of genVmessLink (same text in both copies); the    *)
(* values are the strings stored in obj                                    *)
vmessTransport(stream, network) ==
    CASE network = <<"tcp">> ->
            LET header == AsMap(Field(AsMap(Field(stream, "tcpSettings")), "header"))
                typeStr == StrOr(Field(header, "type"))
            IN  Then({OkP("type" :> typeStr)},
                     IF typeStr = <<"http">> THEN tcpHttp(header) ELSE {OkP(NoParams)})
      [] network = <<"kcp">> ->
            LET kcp == AsMap(Field(stream, "kcpSettings"))
                header == AsMap(Field(kcp, "header"))
            IN  {OkP(("type" :> StrOr(Field(header, "type")))
                     @@ ("path" :> StrOr(Field(kcp, "seed"))))}
      [] network = <<"ws">> ->
            LET ws == AsMap(Field(stream, "wsSettings"))
            IN  Then(MustStr(ws, "path", "path"), hostParam(ws))
      [] network = <<"grpc">> ->
            LET grpc == AsMap(Field(stream, "grpcSettings"))
                multi == Field(grpc, "multiMode")
            IN  Then(Then(MustStr(grpc, "serviceName", "path"),
                          MustStr(grpc, "authority", "authority")),
                     IF multi.t # "bool" THEN {PanicP}
                     ELSE IF multi.b THEN {OkP("type" :> <<"multi">>)}
                     ELSE {OkP(NoParams)})
      [] network = <<"httpupgrade">> ->
            LET hu == AsMap(Field(stream, "httpupgradeSettings"))
            IN  Then(MustStr(hu, "path", "path"), hostParam(hu))
      [] network = <<"xhttp">> ->
            LET xhttp == AsMap(Field(stream, "xhttpSettings"))
            IN  Then(Then(MustStr(xhttp, "path", "path"), hostParam(xhttp)),
                     MustStr(xhttp, "mode", "mode"))
      [] OTHER -> {OkP(NoParams)}

(* the transport switch of genVlessLink / genTrojanLink /                  *)
(* genShadowsocksLink; strict is the util copy, whose assertions panic     *)
(* where the controller copy falls back to the zero value                  *)
uriTransport(strict, stream, network) ==
    CASE network = <<"tcp">> ->
            LET header == AsMap(Field(AsMap(Field(stream, "tcpSettings")), "header"))
                typeStr == StrOr(Field(header, "type"))
            IN  IF typeStr = <<"http">>
                THEN Then(tcpHttp(header), {OkP("headerType" :> <<"http">>)})
                ELSE {OkP(NoParams)}
      [] network = <<"kcp">> ->
            LET kcp == AsMap(Field(stream, "kcpSettings"))
                header == AsMap(Field(kcp, "header"))
            IN  Then(StrParam(strict, header, "type", "headerType"),
                     StrParam(strict, kcp, "seed", "seed"))
      [] network = <<"ws">> ->
            LET ws == AsMap(Field(stream, "wsSettings"))
            IN  Then(StrParam(strict, ws, "path", "path"), hostParam(ws))
      [] network = <<"grpc">> ->
            LET grpc == AsMap(Field(stream, "grpcSettings"))
                multi == Field(grpc, "multiMode")
                auth == Field(grpc, "authority")
            IN  Then(Then(StrParam(strict, grpc, "serviceName", "serviceName"),
                          IF strict \/ auth.t = "str"
                          THEN {OkP("authority" :> StrOr(auth))}
                          ELSE {OkP(NoParams)}),
                     IF strict /\ multi.t # "bool" THEN {PanicP}
                     ELSE IF BoolOr(multi) THEN {OkP("mode" :> <<"multi">>)}
                     ELSE {OkP(NoParams)})
      [] network = <<"httpupgrade">> ->
            LET hu == AsMap(Field(stream, "httpupgradeSettings"))
            IN  Then(StrParam(strict, hu, "path", "path"), hostParam(hu))
      [] network = <<"xhttp">> ->
            LET xhttp == AsMap(Field(stream, "xhttpSettings"))
            IN  Then(Then(StrParam(strict, xhttp, "path", "path"), hostParam(xhttp)),
                     StrParam(strict, xhttp, "mode", "mode"))
      [] OTHER -> {OkP(NoParams)}

----------------------------------------------------------------------------
(* Security parameters *)

(* Results of random.Seq(15): some string of 15 generated characters *)
RandSeq15 == {"rnd15-a", "rnd15-b"}

(* the alpn loop: every element asserted to be a string, joined with ',' *)
alpnParam(alpns) ==
    IF \E i \in 1..Len(alpns) : alpns[i].t # "str" THEN {PanicP}
    ELSE IF Len(alpns) > 0
    THEN {OkP("alpn" :> Join([i \in 1..Len(alpns) |-> alpns[i].s], <<",">>))}
    ELSE {OkP(NoParams)}

(* if v, ok := searchKey(data, key); ok { params[as], _ = v.(string) }     *)
(* (strict copy) or { if s, ok := v.(string); ok { params[as] = s } }       *)
foundStr(strict, data, key, as) ==
    {IF r.ok /\ (strict \/ r.v.t = "str") THEN OkP(as :> StrOr(r.v)) ELSE OkP(NoParams)
        : r \in searchKey(data, key)}

(* found, a string and not empty *)
foundNonEmpty(data, key, as) ==
    {IF r.ok /\ r.v.t = "str" /\ Len(r.v.s) > 0 THEN OkP(as :> r.v.s) ELSE OkP(NoParams)
        : r \in searchKey(data, key)}

(* the flow of the client, on tcp only *)
flowParam(network, client) ==
    IF network = <<"tcp">> /\ Len(client.Flow) > 0
    THEN {OkP("flow" :> client.Flow)} ELSE {OkP(NoParams)}

(* the block "if security == "tls"" of the three URI encoders; the util    *)
(* copy guards the inner search by tlsSetting != nil, the controller copy  *)
(* by tlsSettings != nil; only vless adds the flow here                    *)
uriTls(strict, proto, stream, network, client) ==
    LET (* if insecure, ok := searchKey(..); ok { if insecure.(bool) {..."1"} } *)
        insecureParam(data) ==
            {IF ~r.ok THEN OkP(NoParams)
             ELSE IF r.v.t # "bool" THEN PanicP
             ELSE IF r.v.b THEN OkP("allowInsecure" :> <<"1">>)
             ELSE OkP(NoParams) : r \in searchKey(data, "allowInsecure")}
        tlsSetting == AsMap(Field(stream, "tlsSettings"))
        inner == UNION {
            IF (IF strict THEN tlsSetting.t = "obj" ELSE r.v.t # "null")
            THEN Then(foundStr(strict, r.v, "fingerprint", "fp"), insecureParam(r.v))
            ELSE {OkP(NoParams)} : r \in searchKey(tlsSetting, "settings")}
    IN  Then(Then(Then(Then({OkP("security" :> <<"tls">>)},
                            alpnParam(ArrOr(Field(tlsSetting, "alpn")))),
                       foundStr(strict, tlsSetting, "serverName", "sni")),
                  inner),
             IF proto = "vless" THEN flowParam(network, client) ELSE {OkP(NoParams)})

(* sNames[random.Num(len(sNames))].(string): any element of the pool; an   *)
(* empty pool is out of range.  The controller copy skips an empty pool.   *)
poolPick(strict, data, key, as) ==
    UNION {
        IF ~r.ok THEN {OkP(NoParams)}
        ELSE LET pool == ArrOr(r.v)
             IN  IF Len(pool) = 0 THEN (IF strict THEN {PanicP} ELSE {OkP(NoParams)})
                 ELSE {IF pool[i].t = "str" THEN OkP(as :> pool[i].s) ELSE PanicP
                          : i \in 1..Len(pool)}
        : r \in searchKey(data, key)}

(* the block "if security == "reality"" of genVlessLink and genTrojanLink *)
uriReality(strict, stream, network, client) ==
    LET realitySetting == AsMap(Field(stream, "realitySettings"))
        inner == UNION {
            Then(Then(Then(Then(Then(poolPick(strict, realitySetting, "serverNames", "sni"),
                                     foundStr(strict, r.v, "publicKey", "pbk")),
                                poolPick(strict, realitySetting, "shortIds", "sid")),
                           foundNonEmpty(r.v, "fingerprint", "fp")),
                      foundNonEmpty(r.v, "mldsa65Verify", "pqv")),
                 {OkP("spx" :> <<"/", x>>) : x \in RandSeq15})
            : r \in searchKey(realitySetting, "settings")}
    IN  Then(Then({OkP("security" :> <<"reality">>)},
                  IF realitySetting.t = "obj" THEN inner ELSE {OkP(NoParams)}),
             flowParam(network, client))

(* the security part of an URI encoder: security is the raw               *)
(* stream["security"] string; shadowsocks has only the tls block           *)
uriSecurity(strict, proto, stream, network, client) ==
    LET security == StrOr(Field(stream, "security"))
    IN  IF security = <<"tls">> THEN uriTls(strict, proto, stream, network, client)
        ELSE IF proto = "shadowsocks" THEN {OkP(NoParams)}
        ELSE IF security = <<"reality">> THEN uriReality(strict, stream, network, client)
        ELSE {OkP("security" :> <<"none">>)}

(* the security part of genVmessLink: values as stored in obj *)
vmessSecurity(stream) ==
    LET security == StrOr(Field(stream, "security"))
        tlsSetting == AsMap(Field(stream, "tlsSettings"))
        alpns == ArrOr(Field(tlsSetting, "alpn"))
        alpn == {IF r.panic THEN PanicP
                 ELSE OkP([k \in DOMAIN r.p |-> JStr(r.p[k])]) : r \in alpnParam(alpns)}
        sni == {IF r.ok THEN OkP("sni" :> JStr(StrOr(r.v))) ELSE OkP(NoParams)
                   : r \in searchKey(tlsSetting, "serverName")}
        inner == UNION {
            IF tlsSetting.t = "obj"
            THEN Then({IF f.ok THEN OkP("fp" :> JStr(StrOr(f.v))) ELSE OkP(NoParams)
                          : f \in searchKey(r.v, "fingerprint")},
                      {IF a.ok THEN OkP("allowInsecure" :> JBool(BoolOr(a.v)))
                       ELSE OkP(NoParams) : a \in searchKey(r.v, "allowInsecure")})
            ELSE {OkP(NoParams)} : r \in searchKey(tlsSetting, "settings")}
    IN  Then({OkP("tls" :> JStr(security))},
             IF security = <<"tls">> THEN Then(Then(alpn, sni), inner)
             ELSE {OkP(NoParams)})

----------------------------------------------------------------------------
(* Outcome of one encoder call: the returned string, or a panic.  decoded  *)
(* records whether the call got as far as decoding a settings text.        *)

Ret(out, decoded) == [kind |-> "ret", out |-> out, decoded |-> decoded]
Panicked == [kind |-> "panic", out |-> << >>, decoded |-> TRUE]

Stripped == {"alpn", "sni", "fp", "allowInsecure"}

(* the filter with "sni" missing from its list of keys *)
FilteredKeepsSni(m, newSecurity) ==
    [k \in {x \in DOMAIN m :
                ~(newSecurity = <<"none">> /\ x \in Stripped \ {"sni"})} |-> m[k]]

(* for k, v := range m { if !(newSecurity == "none" && k in Stripped) ... } *)
Filtered(m, newSecurity) ==
    [k \in {x \in DOMAIN m : ~(newSecurity = <<"none">> /\ x \in Stripped)} |-> m[k]]

(* fmt.Sprintf("%s://%s@%s:%d", ...), url.Parse, the query built from the  *)
(* parameters, the fragment set to the remark, url.String()                *)
uriBuild(scheme, cred, host, port, q, remark) ==
    LET withQuery(u) ==
            UrlString([u EXCEPT !.RawQuery = QueryEncode(q @@ ParseQuery(u.RawQuery)),
                                !.Fragment = remark])
    IN  withQuery(UrlParse(<<scheme, ":", "/", "/">> \o cred \o <<"@">> \o host
                           \o <<":", ToString(port)>>))

(* the iteration with the filtered map kept for the next entries *)
uriEntryKeepsFiltered(ctx, entry, params) ==
    LET ep == AsMap(entry)
        newSecurity == StrOr(Field(ep, "forceTls"))
        dest == StrOr(Field(ep, "dest"))
        portV == Field(ep, "port")
        remarkV == Field(ep, "remark")
        params2 == Filtered(Put(params, "security",
                                IF newSecurity # <<"same">> THEN newSecurity
                                ELSE ctx.security), newSecurity)
    IN  IF portV.t # "num" \/ (ctx.strict /\ remarkV.t # "str")
        THEN [panic |-> TRUE, params |-> params, link |-> << >>]
        ELSE [panic |-> FALSE, params |-> params2,
              link |-> uriBuild(ctx.scheme, ctx.cred, dest, portV.n, params2,
                                Remark(ctx.strict, ctx.inb, ctx.mail, StrOr(remarkV)))]

(* one iteration of the external-proxy loop of an URI encoder; params is   *)
(* the map the loop writes "security" into                                 *)
uriEntry(ctx, entry, params) ==
    LET ep == AsMap(entry)
        newSecurity == StrOr(Field(ep, "forceTls"))
        dest == StrOr(Field(ep, "dest"))
        portV == Field(ep, "port")
        remarkV == Field(ep, "remark")
        params2 == Put(params, "security",
                       IF newSecurity # <<"same">> THEN newSecurity ELSE ctx.security)
    IN  IF portV.t # "num" \/ (ctx.strict /\ remarkV.t # "str")
        THEN [panic |-> TRUE, params |-> params, link |-> << >>]
        ELSE [panic |-> FALSE, params |-> params2,
              link |-> uriBuild(ctx.scheme, ctx.cred, dest, portV.n,
                                Filtered(params2, newSecurity),
                                Remark(ctx.strict, ctx.inb, ctx.mail, StrOr(remarkV)))]

RECURSIVE uriFanOut(_, _, _, _)

(* the loop goes on with the link of entry i appended, unless it panicked *)
uriStep(ctx, i, links, e) ==
    IF e.panic THEN Panicked
    ELSE uriFanOut(ctx, i + 1, e.params,
                   links \o (IF i > 1 THEN <<"\n">> ELSE << >>) \o e.link)

uriFanOut(ctx, i, params, links) ==
    IF i > Len(ctx.eps) THEN Ret(links, TRUE)
    ELSE uriStep(ctx, i, links, uriEntry(ctx, ctx.eps[i], params))

(* the tail of an URI encoder, from externalProxies on *)
uriFinish(strict, scheme, cred, inb, mail, addr, stream, params) ==
    LET externalProxies == ArrOr(Field(stream, "externalProxy"))
        ctx == [strict |-> strict, scheme |-> scheme, cred |-> cred, inb |-> inb,
                mail |-> mail, security |-> StrOr(Field(stream, "security")),
                eps |-> externalProxies]
    IN  IF Len(externalProxies) > 0 THEN uriFanOut(ctx, 1, params, << >>)
        ELSE Ret(uriBuild(scheme, cred, addr, inb.Port, params,
                          Remark(strict, inb, mail, << >>)), TRUE)

(* the part of an URI encoder between the client lookup and the tail *)
uriParams(strict, proto, inb, stream, client) ==
    LET netV == Field(stream, "network")
        network == StrOr(netV)
        encryption == Field(Unmarshal(inb.Settings), "encryption")
    IN  IF strict /\ netV.t # "str" THEN {PanicP}
        ELSE Then(Then(Then({OkP("type" :> network)},
                            IF proto = "vless" /\ encryption.t = "str"
                            THEN {OkP("encryption" :> encryption.s)}
                            ELSE {OkP(NoParams)}),
                       uriTransport(strict, stream, network)),
                  uriSecurity(strict, proto, stream, network, client))

(* genVlessLink after the protocol check; strict = TRUE is                 *)
(* web/util/link.go, FALSE the controller copy                             *)
vlessBody(strict, inb, mail, addr) ==
    LET stream == Unmarshal(inb.StreamSettings)
        clients == getClients(inb)
        idx == clientIndex(strict, clients, mail)
    IN  IF idx = 0 THEN {Ret(<< >>, TRUE)}
        ELSE {IF r.panic THEN Panicked
              ELSE uriFinish(strict, "vless", clients[idx].ID, inb, mail, addr,
                             stream, r.p)
                 : r \in uriParams(strict, "vless", inb, stream, clients[idx])}

(* genVlessLink without its protocol check *)
vlessLinkUnguarded(strict, inb, mail, addr) == vlessBody(strict, inb, mail, addr)

(* genVlessLink *)
vlessLink(strict, inb, mail, addr) ==
    IF inb.Protocol # "vless" THEN {Ret(<< >>, FALSE)}
    ELSE vlessBody(strict, inb, mail, addr)

(* genTrojanLink *)
trojanLink(strict, inb, mail, addr) ==
    IF inb.Protocol # "trojan" THEN {Ret(<< >>, FALSE)}
    ELSE LET stream == Unmarshal(inb.StreamSettings)
             clients == getClients(inb)
             idx == clientIndex(strict, clients, mail)
         IN  IF idx = 0 THEN {Ret(<< >>, TRUE)}
             ELSE {IF r.panic THEN Panicked
                   ELSE uriFinish(strict, "trojan", clients[idx].Password, inb, mail,
                                  addr, stream, r.p)
                      : r \in uriParams(strict, "trojan", inb, stream, clients[idx])}

(* encPart with the inbound password included whatever the method *)
encPartAlways(method, inboundPassword, clientPassword) ==
    method \o <<":">> \o inboundPassword \o <<":">> \o clientPassword

(* encPart of genShadowsocksLink: method[0] is out of range on an empty    *)
(* method                                                                  *)
encPart(method, inboundPassword, clientPassword) ==
    IF method[1] = "2"
    THEN method \o <<":">> \o inboundPassword \o <<":">> \o clientPassword
    ELSE method \o <<":">> \o clientPassword

(* genShadowsocksLink: the util copy asserts the inbound password and      *)
(* method to be strings before it looks for the client                     *)
shadowsocksLink(strict, inb, mail, addr) ==
    IF inb.Protocol # "shadowsocks" THEN {Ret(<< >>, FALSE)}
    ELSE LET stream == Unmarshal(inb.StreamSettings)
             clients == getClients(inb)
             settings == Unmarshal(inb.Settings)
             pwV == Field(settings, "password")
             methodV == Field(settings, "method")
             method == StrOr(methodV)
             idx == clientIndex(strict, clients, mail)
         IN  IF strict /\ (pwV.t # "str" \/ methodV.t # "str") THEN {Panicked}
             ELSE IF idx = 0 THEN {Ret(<< >>, TRUE)}
             ELSE {IF r.panic \/ Len(method) = 0 THEN Panicked
                   ELSE uriFinish(strict, "ss",
                                  Base64(encPart(method, StrOr(pwV), clients[idx].Password)),
                                  inb, mail, addr, stream, r.p)
                      : r \in uriParams(strict, "shadowsocks", inb, stream, clients[idx])}

vmessText(obj) == <<"vmess", ":", "/", "/">> \o Base64(MarshalIndent(obj))

(* one iteration of the external-proxy loop of genVmessLink *)
vmessEntry(strict, inb, mail, entry, obj) ==
    LET ep == AsMap(entry)
        newSecurity == StrOr(Field(ep, "forceTls"))
        remarkV == Field(ep, "remark")
        destV == Field(ep, "dest")
        portV == Field(ep, "port")
        newObj == Put(Put(Put(Filtered(obj, newSecurity),
                              "ps", JStr(Remark(strict, inb, mail, StrOr(remarkV)))),
                          "add", JStr(StrOr(destV))),
                      "port", JNum(portV.n))
    IN  IF (strict /\ remarkV.t # "str") \/ destV.t # "str" \/ portV.t # "num"
        THEN [panic |-> TRUE, link |-> << >>]
        ELSE [panic |-> FALSE,
              link |-> vmessText(IF newSecurity # <<"same">>
                                 THEN Put(newObj, "tls", JStr(newSecurity))
                                 ELSE newObj)]

RECURSIVE vmessFanOut(_, _, _, _, _, _, _)

vmessStep(strict, inb, mail, eps, obj, i, links, e) ==
    IF e.panic THEN Panicked
    ELSE vmessFanOut(strict, inb, mail, eps, obj, i + 1,
                     links \o (IF i > 1 THEN <<"\n">> ELSE << >>) \o e.link)

vmessFanOut(strict, inb, mail, eps, obj, i, links) ==
    IF i > Len(eps) THEN Ret(links, TRUE)
    ELSE vmessStep(strict, inb, mail, eps, obj, i, links,
                   vmessEntry(strict, inb, mail, eps[i], obj))

(* genVmessLink: transport and security are read before the client lookup *)
vmessLink(strict, inb, mail, addr) ==
    LET (* the transport values of genVmessLink as obj entries *)
        asObj(A) ==
            {IF q.panic THEN PanicP ELSE OkP([k \in DOMAIN q.p |-> JStr(q.p[k])]) : q \in A}
    IN  IF inb.Protocol # "vmess" THEN {Ret(<< >>, FALSE)}
        ELSE LET stream == Unmarshal(inb.StreamSettings)
                 network == StrOr(Field(stream, "network"))
                 obj0 == ("v" :> JStr(<<"2">>)) @@ ("add" :> JStr(addr))
                         @@ ("port" :> JNum(inb.Port)) @@ ("type" :> JStr(<<"none">>))
                         @@ ("net" :> JStr(network))
                 clients == getClients(inb)
                 idx == clientIndex(strict, clients, mail)
                 externalProxies == ArrOr(Field(stream, "externalProxy"))
             IN  {IF r.panic THEN Panicked
                  ELSE IF idx = 0 THEN Ret(<< >>, TRUE)
                  ELSE LET obj == Put(Put(r.p, "id", JStr(clients[idx].ID)),
                                      "scy", JStr(clients[idx].Security))
                       IN  IF Len(externalProxies) > 0
                           THEN vmessFanOut(strict, inb, mail, externalProxies, obj, 1, << >>)
                           ELSE Ret(vmessText(Put(obj, "ps",
                                                  JStr(Remark(strict, inb, mail, << >>)))), TRUE)
                     : r \in Then(Then({OkP(obj0)}, asObj(vmessTransport(stream, network))),
                                  vmessSecurity(stream))}

(* the four encoders of web/util/link.go *)
genVmessLink(inb, mail, addr) == vmessLink(TRUE, inb, mail, addr)
genVlessLink(inb, mail, addr) == vlessLink(TRUE, inb, mail, addr)
genTrojanLink(inb, mail, addr) == trojanLink(TRUE, inb, mail, addr)
genShadowsocksLink(inb, mail, addr) == shadowsocksLink(TRUE, inb, mail, addr)

GetClientLink(inb, mail, addr) ==
    CASE inb.Protocol = "vmess" -> genVmessLink(inb, mail, addr)
      [] inb.Protocol = "vless" -> genVlessLink(inb, mail, addr)
      [] inb.Protocol = "trojan" -> genTrojanLink(inb, mail, addr)
      [] inb.Protocol = "shadowsocks" -> genShadowsocksLink(inb, mail, addr)
      [] OTHER -> {Ret(<< >>, FALSE)}

(* the controller copies *)
ctlGenVmessLink(inb, addr, mail) == vmessLink(FALSE, inb, mail, addr)
ctlGenVlessLink(inb, addr, mail) == vlessLink(FALSE, inb, mail, addr)
ctlGenTrojanLink(inb, addr, mail) == trojanLink(FALSE, inb, mail, addr)
ctlGenShadowsocksLink(inb, addr, mail) == shadowsocksLink(FALSE, inb, mail, addr)

getLink(inb, addr, mail) ==
    CASE inb.Protocol = "vmess" -> ctlGenVmessLink(inb, addr, mail)
      [] inb.Protocol = "vless" -> ctlGenVlessLink(inb, addr, mail)
      [] inb.Protocol = "trojan" -> ctlGenTrojanLink(inb, addr, mail)
      [] inb.Protocol = "shadowsocks" -> ctlGenShadowsocksLink(inb, addr, mail)
      [] OTHER -> {Ret(<< >>, FALSE)}

----------------------------------------------------------------------------
(* Inputs: stored inbounds.  Settings and StreamSettings are kept as the   *)
(* JSON value their text denotes, or InvalidJSON for a text that does not  *)
(* parse.  The sets below give the transport, security, external-proxy and *)
(* client-list shapes the encoders branch on, well-formed and not.         *)

MaxProxies == 2

J(a) == JStr(<<a>>)
Path(a) == JStr(<<"/", a>>)

TlsFull ==
    ("security" :> J("tls"))
    @@ ("tlsSettings" :> JObj(
           ("serverName" :> J("example.com"))
           @@ ("alpn" :> JArr(<<J("h2"), J("h3")>>))
           @@ ("settings" :> JObj(("fingerprint" :> J("chrome"))
                                  @@ ("allowInsecure" :> JBool(TRUE))))))

Client(mail, cred) ==
    JObj(("email" :> J(mail)) @@ ("id" :> JStr(cred)) @@ ("password" :> JStr(cred))
         @@ ("flow" :> J("xtls-rprx-vision")) @@ ("security" :> J("auto")))

Method2022 == <<"2", "022-blake3-aes-128-gcm">>
MethodLegacy == <<"a", "es-256-gcm">>

SettingsOf(clients, method) ==
    JObj(("clients" :> JArr(clients)) @@ ("method" :> JStr(method))
         @@ ("password" :> J("ABCDEF")) @@ ("encryption" :> J("none")))

Protocols == {"vmess", "vless", "trojan", "shadowsocks", "http"}

ExampleId == <<"9cf47c17", "-", "6512", "-", "40ec", "-", "87e0", "-", "e59801366929">>

(* a vless inbound on ws with tls, no remark and no encryption field *)
ExampleInbound ==
    [Protocol |-> "vless", Port |-> 443, Remark |-> << >>,
     Settings |-> JObj("clients" :> JArr(<<JObj(("email" :> J("alice"))
                                               @@ ("id" :> JStr(ExampleId)))>>)),
     StreamSettings |->
        JObj(("network" :> J("ws"))
             @@ ("wsSettings" :> JObj(("path" :> Path("ws")) @@ ("host" :> J("example.com"))))
             @@ ("security" :> J("tls"))
             @@ ("tlsSettings" :> JObj("serverName" :> J("example.com"))))]

Inbounds ==
    LET WithProxies(eps) ==
            IF Len(eps) = 0 THEN << >> ELSE ("externalProxy" :> JArr(eps))
        PlainSecurities ==
            {("security" :> J("none")), TlsFull}
        TcpOnly ==
            {("network" :> J("tcp"))}
        BaseSettings ==
            LET (* credentials: a UUID-like one and one with a character that is special   *)
                (* in a URL                                                                *)
                Creds ==
                    {<<"9cf47c17">>, <<"p", "#", "w">>}
            IN  {SettingsOf(<<Client("alice", c)>>, Method2022) : c \in Creds}
        AllSettings ==
            BaseSettings
            \cup { SettingsOf(<<Client("alice", <<"9cf47c17">>)>>, MethodLegacy),
                   SettingsOf(<<Client("bob", <<"b0b0b0b0">>), Client("alice", <<"9cf47c17">>)>>,
                              Method2022),
                   SettingsOf(<<Client("alice", <<"9cf47c17">>)>>, << >>),
                   (* an email differing only in letter case, and a repeated email *)
                   SettingsOf(<<Client("Alice", <<"11111111">>), Client("alice", <<"9cf47c17">>),
                                Client("alice", <<"33333333">>)>>, Method2022),
                   SettingsOf(<<Client("Alice", <<"11111111">>)>>, Method2022),
                   SettingsOf(<< >>, Method2022),
                   JObj("clients" :> JArr(<<Client("alice", <<"9cf47c17">>)>>)),
                   InvalidJSON }
        (* external-proxy entries: forceTls same / none / an explicit mode, and an *)
        (* entry without remark                                                    *)
        Entries ==
            { JObj(("forceTls" :> J("same")) @@ ("dest" :> J("cdn1.example"))
                   @@ ("port" :> JNum(8443)) @@ ("remark" :> J("e1"))),
              JObj(("forceTls" :> J("none")) @@ ("dest" :> J("cdn2.example"))
                   @@ ("port" :> JNum(2053)) @@ ("remark" :> J("e2"))),
              JObj(("forceTls" :> J("tls")) @@ ("dest" :> J("cdn3.example"))
                   @@ ("port" :> JNum(2083)) @@ ("remark" :> JStr(<< >>))),
              JObj(("forceTls" :> J("same")) @@ ("dest" :> J("cdn4.example"))
                   @@ ("port" :> JNum(2087))) }
        ProxyLists ==
            UNION {[1..n -> Entries] : n \in 0..MaxProxies}
        Securities ==
            { << >>,
              ("security" :> J("none")),
              ("security" :> J("tls")),
              TlsFull,
              ("security" :> J("tls"))
                @@ ("tlsSettings" :> JObj(
                       ("serverName" :> J("a.example"))
                       @@ ("settings" :> JObj(("serverName" :> J("b.example"))
                                              @@ ("fingerprint" :> J("chrome")))))),
              ("security" :> J("tls"))
                @@ ("tlsSettings" :> JObj(
                       ("alpn" :> JArr(<< >>))
                       @@ ("settings" :> JObj("allowInsecure" :> JBool(FALSE))))),
              ("security" :> J("reality"))
                @@ ("realitySettings" :> JObj(
                       ("serverNames" :> JArr(<<J("r1.example"), J("r2.example")>>))
                       @@ ("shortIds" :> JArr(<<J("5d"), J("a7")>>))
                       @@ ("settings" :> JObj(("publicKey" :> J("pbk1"))
                                              @@ ("fingerprint" :> J("chrome")))))),
              ("security" :> J("reality"))
                @@ ("realitySettings" :> JObj(
                       ("serverNames" :> JArr(<< >>))
                       @@ ("shortIds" :> JArr(<<J("5d")>>))
                       @@ ("settings" :> JObj("publicKey" :> J("pbk1"))))) }
        Transports ==
            { << >>,
              ("network" :> J("tcp")),
              ("network" :> J("tcp"))
                @@ ("tcpSettings" :> JObj("header" :> JObj("type" :> J("none")))),
              ("network" :> J("tcp"))
                @@ ("tcpSettings" :> JObj("header" :> JObj(
                       ("type" :> J("http"))
                       @@ ("request" :> JObj(
                              ("path" :> JArr(<<Path("p1")>>))
                              @@ ("headers" :> JObj("Host" :> JArr(<<J("h.example")>>)))))))),
              ("network" :> J("tcp"))
                @@ ("tcpSettings" :> JObj("header" :> JObj("type" :> J("http")))),
              ("network" :> J("ws"))
                @@ ("wsSettings" :> JObj(("path" :> Path("ws")) @@ ("host" :> J("example.com")))),
              ("network" :> J("ws"))
                @@ ("wsSettings" :> JObj(
                       ("path" :> Path("ws"))
                       @@ ("headers" :> JObj(("Host" :> J("a.example"))
                                             @@ ("host" :> JArr(<<J("b.example")>>)))))),
              ("network" :> J("ws")) @@ ("wsSettings" :> EmptyObj),
              ("network" :> J("ws"))
                @@ ("wsSettings" :> JObj(("path" :> Path("ws"))
                                         @@ ("headers" :> JObj("HOST" :> JArr(<< >>))))),
              ("network" :> J("httpupgrade"))
                @@ ("httpupgradeSettings" :> JObj(
                       ("path" :> Path("hu")) @@ ("host" :> JStr(<< >>))
                       @@ ("headers" :> JObj("Host" :> J("hu.example"))))),
              ("network" :> J("xhttp"))
                @@ ("xhttpSettings" :> JObj(("path" :> Path("xh")) @@ ("mode" :> J("auto")))),
              ("network" :> J("grpc"))
                @@ ("grpcSettings" :> JObj(("serviceName" :> J("svc"))
                                           @@ ("authority" :> J("auth.example"))
                                           @@ ("multiMode" :> JBool(TRUE)))),
              ("network" :> J("grpc")) @@ ("grpcSettings" :> JObj("serviceName" :> J("svc"))),
              ("network" :> J("kcp"))
                @@ ("kcpSettings" :> JObj(("header" :> JObj("type" :> J("srtp")))
                                          @@ ("seed" :> J("sd")))),
              ("network" :> J("kcp")) @@ ("kcpSettings" :> EmptyObj),
              ("network" :> J("httpupgrade"))
                @@ ("httpupgradeSettings" :> JObj(("path" :> Path("hu"))
                                                  @@ ("host" :> J("example.com")))),
              ("network" :> J("xhttp"))
                @@ ("xhttpSettings" :> JObj(("path" :> Path("xh")) @@ ("host" :> J("example.com"))
                                            @@ ("mode" :> J("auto")))) }
        FewProxies ==
            {<< >>, <<CHOOSE e \in Entries : Field(e, "forceTls") = J("none")>>}
        Streams ==
            {JObj(t @@ s @@ WithProxies(e)) : t \in Transports, s \in PlainSecurities,
                                              e \in {<< >>}}
            \cup {JObj(t @@ s @@ WithProxies(e)) : t \in TcpOnly, s \in Securities,
                                                   e \in ProxyLists}
            \cup {InvalidJSON}
    IN  {ExampleInbound}
        \cup
        {[Protocol |-> p, Port |-> 443, Remark |-> <<"srv">>, Settings |-> st,
          StreamSettings |-> ss] : p \in Protocols, st \in BaseSettings, ss \in Streams}
        \cup
        {[Protocol |-> p, Port |-> 443, Remark |-> << >>, Settings |-> st,
          StreamSettings |-> JObj(t @@ s @@ WithProxies(e))]
            : p \in Protocols, st \in AllSettings, t \in TcpOnly, s \in PlainSecurities,
              e \in FewProxies}
        \cup
        {[Protocol |-> p, Port |-> 443, Remark |-> << >>, Settings |-> st,
          StreamSettings |-> InvalidJSON] : p \in Protocols, st \in AllSettings}

Emails == {<<"alice">>, <<"ghost">>}

----------------------------------------------------------------------------
(* The calls *)

NoResult == [kind |-> "none", out |-> << >>, decoded |-> FALSE]

(* value of a variable the specification at hand does not use *)
Unused == [kind |-> "unused"]

Outcomes(f, inb, mail, addr) ==
    CASE f = "genVmessLink" -> genVmessLink(inb, mail, addr)
      [] f = "genVlessLink" -> genVlessLink(inb, mail, addr)
      [] f = "genTrojanLink" -> genTrojanLink(inb, mail, addr)
      [] f = "genShadowsocksLink" -> genShadowsocksLink(inb, mail, addr)
      [] f = "GetClientLink" -> GetClientLink(inb, mail, addr)
      [] f = "ctlGenVmessLink" -> ctlGenVmessLink(inb, addr, mail)
      [] f = "ctlGenVlessLink" -> ctlGenVlessLink(inb, addr, mail)
      [] f = "ctlGenTrojanLink" -> ctlGenTrojanLink(inb, addr, mail)
      [] f = "ctlGenShadowsocksLink" -> ctlGenShadowsocksLink(inb, addr, mail)
      [] f = "getLink" -> getLink(inb, addr, mail)

Init ==
    /\ inbound \in Inbounds
    /\ email \in Emails
    /\ address = <<"1.2.3.4">>
    /\ pc = "idle"
    /\ op = "none"
    /\ res1 = NoResult
    /\ res2 = NoResult
    /\ gen = Unused
    /\ response = Unused
    /\ web = Unused
    /\ calls = Unused

Call(f, results) ==
    /\ pc = "idle"
    /\ \E r \in results : res1' = r
    /\ op' = f
    /\ pc' = "called"
    /\ UNCHANGED <<inbound, email, address, res2, gen, response, web, calls>>

CallGenVmessLink == Call("genVmessLink", genVmessLink(inbound, email, address))
CallGenVlessLink == Call("genVlessLink", genVlessLink(inbound, email, address))
CallGenTrojanLink == Call("genTrojanLink", genTrojanLink(inbound, email, address))
CallGenShadowsocksLink ==
    Call("genShadowsocksLink", genShadowsocksLink(inbound, email, address))
CallGetClientLink == Call("GetClientLink", GetClientLink(inbound, email, address))
CallCtlGenVmessLink == Call("ctlGenVmessLink", ctlGenVmessLink(inbound, address, email))
CallCtlGenVlessLink == Call("ctlGenVlessLink", ctlGenVlessLink(inbound, address, email))
CallCtlGenTrojanLink ==
    Call("ctlGenTrojanLink", ctlGenTrojanLink(inbound, address, email))
CallCtlGenShadowsocksLink ==
    Call("ctlGenShadowsocksLink", ctlGenShadowsocksLink(inbound, address, email))
CallGetLink == Call("getLink", getLink(inbound, address, email))

(* the same call once more on the same inputs *)
CallAgain ==
    /\ pc = "called"
    /\ \E r \in Outcomes(op, inbound, email, address) : res2' = r
    /\ pc' = "done"
    /\ UNCHANGED <<inbound, email, address, op, res1, gen, response, web, calls>>

Next ==
    \/ CallGenVmessLink
    \/ CallGenVlessLink
    \/ CallGenTrojanLink
    \/ CallGenShadowsocksLink
    \/ CallGetClientLink
    \/ CallCtlGenVmessLink
    \/ CallCtlGenVlessLink
    \/ CallCtlGenTrojanLink
    \/ CallCtlGenShadowsocksLink
    \/ CallGetLink
    \/ CallAgain

Spec == Init /\ [][Next]_vars

----------------------------------------------------------------------------
(* Reading a returned string back, the way a client application does:      *)
(* split at newlines, parse each link as a URL or as base64 of JSON.       *)

RECURSIVE SplitLines(_)
SplitLines(s) ==
    LET i == IndexOf(s, "\n")
    IN  IF i = 0 THEN <<s>> ELSE <<Before(s, i)>> \o SplitLines(After(s, i))

(* members of a flat JSON object text, values as texts *)
RECURSIVE ParseMembers(_)
ParseMembers(s) ==
    LET JsonUnesc(quoted) ==
                LET one(c) == IF c = "\\\"" THEN "\"" ELSE c
                IN  [i \in 1..Len(quoted) |-> one(quoted[i])]
    IN  IF Len(s) = 0 \/ s[1] = "}" THEN NoParams
        ELSE LET m == IF s[1] = "," THEN Tail(s) ELSE s
                 key == m[2]
                 vs == SubSeq(m, 5, Len(m))
             IN  IF vs[1] = "\""
                 THEN LET j == IndexOf(Tail(vs), "\"")
                      IN  (key :> JsonUnesc(SubSeq(vs, 2, j)))
                          @@ ParseMembers(SubSeq(vs, j + 2, Len(vs)))
                 ELSE (key :> <<vs[1]>>) @@ ParseMembers(Tail(vs))

(* what a link says: scheme, credential, host, port, parameters *)
ReadLink(text) ==
    IF Len(text) > 0 /\ text[1] = "vmess"
    THEN LET o == ParseMembers(Tail(Base64Decode(SubSeq(text, 5, Len(text)))))
         IN  [scheme |-> "vmess",
              cred |-> IF "id" \in DOMAIN o THEN o["id"] ELSE << >>,
              host |-> IF "add" \in DOMAIN o THEN o["add"] ELSE << >>,
              port |-> IF "port" \in DOMAIN o THEN o["port"] ELSE << >>,
              params |-> o,
              remark |-> IF "ps" \in DOMAIN o THEN o["ps"] ELSE << >>,
              secKey |-> "tls"]
    ELSE LET u == UrlParse(text)
             ci == LastIndexOf(u.Host, ":")
         IN  [scheme |-> u.Scheme,
              cred |-> u.User,
              host |-> IF ci = 0 THEN u.Host ELSE Before(u.Host, ci),
              port |-> IF ci = 0 THEN << >> ELSE After(u.Host, ci),
              params |-> ParseQuery(u.RawQuery),
              remark |-> u.Fragment,
              secKey |-> "security"]

Links(res) == LET ls == SplitLines(res.out) IN [i \in 1..Len(ls) |-> ReadLink(ls[i])]

UtilEncoders == {"genVmessLink", "genVlessLink", "genTrojanLink", "genShadowsocksLink"}
Encoders ==
    LET CtlEncoders ==
            {"ctlGenVmessLink", "ctlGenVlessLink", "ctlGenTrojanLink", "ctlGenShadowsocksLink"}
    IN  UtilEncoders \cup CtlEncoders
Dispatchers == {"GetClientLink", "getLink"}
Supported == {"vmess", "vless", "trojan", "shadowsocks"}

(* the protocol an encoder is written for *)
ProtocolOf(f) ==
    CASE f \in {"genVmessLink", "ctlGenVmessLink"} -> "vmess"
      [] f \in {"genVlessLink", "ctlGenVlessLink"} -> "vless"
      [] f \in {"genTrojanLink", "ctlGenTrojanLink"} -> "trojan"
      [] f \in {"genShadowsocksLink", "ctlGenShadowsocksLink"} -> "shadowsocks"
      [] OTHER -> inbound.Protocol

(* the call went to the encoder of the inbound's own protocol *)
Matched == pc # "idle" /\ inbound.Protocol \in Supported /\ ProtocolOf(op) = inbound.Protocol

(* the client the call is for, 0 when the email matches none *)
FoundIndex ==
    LET IsUtil(f) ==
            f \in UtilEncoders \cup {"GetClientLink"}
    IN  clientIndex(IsUtil(op), getClients(inbound), email)

TheClient == getClients(inbound)[FoundIndex]

ExternalProxies == ArrOr(Field(Unmarshal(inbound.StreamSettings), "externalProxy"))

(* the call returned one or more links *)
Linked == Matched /\ FoundIndex # 0 /\ res1.kind = "ret" /\ Len(res1.out) > 0

(* the security parameter of a link, when it has one *)
SecOf(l) ==
    IF l.secKey \in DOMAIN l.params
    THEN [has |-> TRUE, v |-> l.params[l.secKey]]
    ELSE [has |-> FALSE, v |-> << >>]

ForceTls(k) == StrOr(Field(ExternalProxies[k], "forceTls"))

StreamSecurity == StrOr(Field(Unmarshal(inbound.StreamSettings), "security"))

----------------------------------------------------------------------------
(* C1: for an email that matches no client of the inbound, each of the     *)
(* four encoders of web/util/link.go returns the empty string and does not *)
(* panic, whatever the transport, security and inbound-level settings.     *)
C1_UnknownEmailEmpty ==
    (pc # "idle" /\ op \in UtilEncoders /\ FoundIndex = 0)
        => (res1.kind = "ret" /\ res1.out = << >>)

(* C2: an encoder called on an inbound of another protocol returns the     *)
(* empty string at once, before it decodes any settings, and the           *)
(* dispatchers return the empty string for a protocol outside the four.    *)
C2_MismatchEmpty ==
    pc # "idle" =>
        /\ (op \in Encoders /\ ProtocolOf(op) # inbound.Protocol)
               => res1 = Ret(<< >>, FALSE)
        /\ (op \in Dispatchers /\ inbound.Protocol \notin Supported)
               => res1 = Ret(<< >>, FALSE)

(* an encoder was called on an inbound of another protocol that has the    *)
(* client, and returned nothing                                            *)
C2_Witness ==
    /\ pc = "called"
    /\ op = "genVlessLink"
    /\ inbound.Protocol = "trojan"
    /\ FoundIndex # 0
    /\ inbound.StreamSettings.t = "obj"
    /\ res1.out = << >>

(* C3: with N >= 1 external-proxy entries and an existing client the       *)
(* result is exactly N links separated by single newlines, the k-th link   *)
(* targeting the k-th entry's dest and port; with no entries it is one     *)
(* link targeting (address, inbound.Port).                                 *)
C3_FanOutTargets ==
    Linked =>
        LET ls == Links(res1)
        IN  IF Len(ExternalProxies) >= 1
            THEN /\ Len(ls) = Len(ExternalProxies)
                 /\ \A k \in 1..Len(ls) :
                        /\ ls[k].host = StrOr(Field(ExternalProxies[k], "dest"))
                        /\ ls[k].port = <<ToString(Field(ExternalProxies[k], "port").n)>>
            ELSE /\ Len(ls) = 1
                 /\ ls[1].host = address
                 /\ ls[1].port = <<ToString(inbound.Port)>>

(* C4: in fan-out mode the link of an entry whose forceTls is "none" has   *)
(* none of alpn, sni, fp, allowInsecure and carries security (tls for      *)
(* vmess) = "none", for all four protocols.                                *)
C4_ForceNoneStrips ==
    (Linked /\ Len(ExternalProxies) >= 1) =>
        LET ls == Links(res1)
        IN  /\ Len(ls) = Len(ExternalProxies)
            /\ \A k \in 1..Len(ls) :
                   ForceTls(k) = <<"none">> =>
                       /\ DOMAIN ls[k].params \cap Stripped = {}
                       /\ SecOf(ls[k]) = [has |-> TRUE, v |-> <<"none">>]

(* a fan-out call on an inbound whose tls settings set alpn, serverName,   *)
(* fingerprint and allowInsecure returned links, one of them for an entry  *)
(* with forceTls "none"                                                    *)
C4_Witness ==
    /\ Linked
    /\ Field(Unmarshal(inbound.StreamSettings), "tlsSettings") = TlsFull["tlsSettings"]
    /\ StreamSecurity = <<"tls">>
    /\ \E k \in 1..Len(ExternalProxies) : ForceTls(k) = <<"none">>

(* C5: in fan-out mode the link of an entry whose forceTls is "same"       *)
(* carries the security parameter the encoder computed for the inbound     *)
(* itself, the one the single link without fan-out carries; for any other  *)
(* forceTls the security parameter is that forceTls value.                 *)
C5_SameKeepsComputed ==
    LET (* the inbound of the call without its external-proxy entries *)
        InboundAlone ==
            [inbound EXCEPT !.StreamSettings =
                IF @.t = "obj"
                THEN JObj([k \in DOMAIN @.o \ {"externalProxy"} |-> @.o[k]])
                ELSE @]
    IN  (Linked /\ Len(ExternalProxies) >= 1) =>
            LET ls == Links(res1)
            IN  \A k \in 1..Len(ls) :
                    IF ForceTls(k) = <<"same">>
                    THEN \A r \in Outcomes(op, InboundAlone, email, address) :
                             r.kind = "ret" => SecOf(ls[k]) = SecOf(ReadLink(r.out))
                    ELSE SecOf(ls[k]) = [has |-> TRUE, v |-> ForceTls(k)]

(* C6: for vless, trojan and shadowsocks, when the security mode is        *)
(* neither "tls" nor "reality" (or absent), the single link without        *)
(* fan-out carries security = "none".                                      *)
C6_NoneIsExplicit ==
    (/\ Linked
     /\ ProtocolOf(op) \in {"vless", "trojan", "shadowsocks"}
     /\ Len(ExternalProxies) = 0
     /\ StreamSecurity \notin {<<"tls">>, <<"reality">>})
        => SecOf(Links(res1)[1]) = [has |-> TRUE, v |-> <<"none">>]

InboundMethod == StrOr(Field(Unmarshal(inbound.Settings), "method"))
InboundPassword == StrOr(Field(Unmarshal(inbound.Settings), "password"))

(* C7: the credential segment of a shadowsocks link is                     *)
(* base64("method:inboundPassword:clientPassword") when the method starts  *)
(* with '2' and base64("method:clientPassword") otherwise, and the inbound *)
(* password does not appear for a method that does not start with '2'.     *)
C7_Credential ==
    (Linked /\ ProtocolOf(op) = "shadowsocks") =>
        LET ls == Links(res1)
        IN  \A k \in 1..Len(ls) :
                /\ ls[k].scheme = "ss"
                /\ IF InboundMethod[1] = "2"
                   THEN ls[k].cred = Base64(InboundMethod \o <<":">> \o InboundPassword
                                            \o <<":">> \o TheClient.Password)
                   ELSE /\ ls[k].cred = Base64(InboundMethod \o <<":">>
                                               \o TheClient.Password)
                        /\ \A i \in 1..Len(ls[k].cred) :
                               \A j \in 1..Len(InboundPassword) :
                                   ls[k].cred[i] # InboundPassword[j]

(* a shadowsocks link came back for a legacy method on an inbound that has *)
(* an inbound password                                                     *)
C7_Witness ==
    /\ Linked
    /\ ProtocolOf(op) = "shadowsocks"
    /\ InboundMethod = MethodLegacy
    /\ Len(InboundPassword) > 0

(* the credential a link carries: for shadowsocks the last component of    *)
(* the decoded userinfo                                                    *)
CredOf(l) ==
    IF l.scheme = "ss"
    THEN LET d == Base64Decode(l.cred) IN After(d, LastIndexOf(d, ":"))
    ELSE l.cred

(* C8: parsing the single link without fan-out recovers the inputs: host = *)
(* the supplied address, port = inbound.Port, credential = the client's id *)
(* (vmess, vless) or password (trojan, shadowsocks).                       *)
C8_RoundTrip ==
    (Linked /\ Len(ExternalProxies) = 0) =>
        LET l == Links(res1)[1]
        IN  /\ l.host = address
            /\ l.port = <<ToString(inbound.Port)>>
            /\ CredOf(l) = IF ProtocolOf(op) \in {"vmess", "vless"}
                           THEN TheClient.ID ELSE TheClient.Password

(* C9: two calls on the same inputs return the same string when the        *)
(* security mode is not reality; when it is reality they differ at most in *)
(* the values of sni, sid and spx.                                         *)
C9_Deterministic ==
    LET Random ==
            {"sni", "sid", "spx"}
        SameButRandom(a, b) ==
            /\ a.scheme = b.scheme /\ a.cred = b.cred /\ a.host = b.host /\ a.port = b.port
            /\ a.remark = b.remark
            /\ DOMAIN a.params = DOMAIN b.params
            /\ \A k \in DOMAIN a.params \ Random : a.params[k] = b.params[k]
    IN  pc = "done" =>
            IF StreamSecurity # <<"reality">> THEN res1 = res2
            ELSE /\ res1.kind = res2.kind
                 /\ Len(res1.out) = 0 <=> Len(res2.out) = 0
                 /\ (res1.kind = "ret" /\ Len(res1.out) > 0) =>
                        /\ Len(Links(res1)) = Len(Links(res2))
                        /\ \A k \in 1..Len(Links(res1)) :
                               SameButRandom(Links(res1)[k], Links(res2)[k])

(* C10: when the Settings or the StreamSettings text is not valid JSON the *)
(* call reports a decode error, distinct from the empty "not found"        *)
(* string, and returns no partial link.                                    *)
C10_DecodeErrorReported ==
    (Matched /\ (inbound.Settings.t = "invalid" \/ inbound.StreamSettings.t = "invalid"))
        => (res1.kind = "error" /\ res1.out = << >>)

----------------------------------------------------------------------------
(* C11: with valid JSON in Settings and StreamSettings and the email in    *)
(* the client list, every encoder returns a link and does not panic, even  *)
(* when optional nested fields (transport fields, external-proxy entry     *)
(* fields, the shadowsocks method and password) are absent or mistyped.    *)
C11_MissingFieldsTolerated ==
    (/\ Matched
     /\ inbound.Settings.t = "obj"
     /\ inbound.StreamSettings.t = "obj"
     /\ FoundIndex # 0)
        => (res1.kind = "ret" /\ Len(res1.out) > 0)

(* C19: in fan-out mode the link of an entry depends only on that entry    *)
(* and on the parameters computed for the inbound: it is a link the same   *)
(* call returns when the entry is the only one, whatever entries (forceTls *)
(* "none", an explicit override) come before it.                           *)
C19_EntryAlone ==
    LET (* the inbound of the call with the k-th external-proxy entry alone *)
        InboundWithOnly(n) ==
            [inbound EXCEPT !.StreamSettings =
                JObj(("externalProxy" :> JArr(<<ExternalProxies[n]>>)) @@ @.o)]
    IN  (Linked /\ Len(ExternalProxies) >= 1) =>
            LET lines == SplitLines(res1.out)
            IN  /\ Len(lines) = Len(ExternalProxies)
                /\ \A k \in 1..Len(lines) :
                       \E r \in Outcomes(op, InboundWithOnly(k), email, address) :
                           r.kind = "ret" /\ r.out = lines[k]

(* links came back for an inbound with full tls settings where an entry    *)
(* with forceTls "none" comes before an entry with forceTls "same", and    *)
(* the later link still has its alpn, sni and fp                           *)
C19_Witness ==
    /\ Linked
    /\ StreamSecurity = <<"tls">>
    /\ Field(Unmarshal(inbound.StreamSettings), "tlsSettings") = TlsFull["tlsSettings"]
    /\ Len(ExternalProxies) >= 2
    /\ ForceTls(1) = <<"none">>
    /\ ForceTls(2) = <<"same">>
    /\ {"alpn", "sni", "fp"} \subseteq DOMAIN Links(res1)[2].params

(* C20: for a vless or trojan inbound with security "reality" and a        *)
(* realitySettings object, sni is an element of serverNames, sid an        *)
(* element of shortIds, pbk the configured publicKey, spx "/" followed by  *)
(* the 15 generated characters; an empty pool does not abort the encode.   *)
C20_RealityPools ==
    LET RealitySettings ==
            AsMap(Field(Unmarshal(inbound.StreamSettings), "realitySettings"))
        Pool(key) ==
            {StrOr(e) : e \in {ArrOr(Field(RealitySettings, key))[i] :
                                  i \in 1..Len(ArrOr(Field(RealitySettings, key)))}}
    IN  (/\ Matched
         /\ FoundIndex # 0
         /\ ProtocolOf(op) \in {"vless", "trojan"}
         /\ StreamSecurity = <<"reality">>
         /\ RealitySettings.t = "obj"
         /\ Len(ExternalProxies) = 0)
            => /\ res1.kind = "ret"
               /\ Len(res1.out) > 0
               /\ LET l == Links(res1)[1]
                  IN  /\ "sni" \in DOMAIN l.params => l.params["sni"] \in Pool("serverNames")
                      /\ "sid" \in DOMAIN l.params => l.params["sid"] \in Pool("shortIds")
                      /\ "pbk" \in DOMAIN l.params
                      /\ l.params["pbk"] =
                             StrOr(Field(AsMap(Field(RealitySettings, "settings")), "publicKey"))
                      /\ "spx" \in DOMAIN l.params
                      /\ \E x \in RandSeq15 : l.params["spx"] = <<"/", x>>

----------------------------------------------------------------------------
(* C18: for the vless inbound on ws (path "/ws", host "example.com") with  *)
(* tls (serverName "example.com"), empty remark, no encryption field, port *)
(* 443, client 9cf47c17-6512-40ec-87e0-e59801366929 / "alice" and address  *)
(* 1.2.3.4, the link is vless://, has the id as userinfo, host 1.2.3.4,    *)
(* port 443, exactly the parameters type=ws, path=/ws (escaped in the      *)
(* text), host=example.com, security=tls, sni=example.com, and fragment    *)
(* "alice".                                                                *)
C18_Example ==
    (/\ pc # "idle"
     /\ inbound = ExampleInbound
     /\ email = <<"alice">>
     /\ address = <<"1.2.3.4">>
     /\ op \in {"genVlessLink", "GetClientLink", "ctlGenVlessLink", "getLink"})
        => /\ res1.kind = "ret"
           /\ Len(SplitLines(res1.out)) = 1
           /\ LET l == ReadLink(res1.out)
              IN  /\ l.scheme = "vless"
                  /\ l.cred = ExampleId
                  /\ l.host = <<"1.2.3.4">>
                  /\ l.port = <<"443">>
                  /\ l.remark = <<"alice">>
                  /\ DOMAIN l.params = {"type", "path", "host", "security", "sni"}
                  /\ l.params["type"] = <<"ws">>
                  /\ l.params["path"] = <<"/", "ws">>
                  /\ l.params["host"] = <<"example.com">>
                  /\ l.params["security"] = <<"tls">>
                  /\ l.params["sni"] = <<"example.com">>
           /\ \E i \in 1..(Len(res1.out) - 3) :
                  SubSeq(res1.out, i, i + 3) = <<"path", "=", "%2F", "ws">>

(* the util encoder was called on the example inbound for alice *)
C18_Witness ==
    /\ pc = "called"
    /\ op = "genVlessLink"
    /\ inbound = ExampleInbound
    /\ email = <<"alice">>
    /\ Len(res1.out) > 0

----------------------------------------------------------------------------
(* GenerateClientDefaults                                                  *)
(*                                                                         *)
(* An int64 is four 16-bit limbs, least significant first, in two's        *)
(* complement: the value is l[1] + l[2]*2^16 + l[3]*2^32 + l[4]*2^48, minus *)
(* 2^64 when l[4] >= 2^15.                                                 *)

(* x * 1024 on Len(x) limbs: each limb takes the low bits of its own       *)
(* product and the bits carried out of the limb below; what is carried out *)
(* of the top limb is lost                                                 *)
Mul1024(x) ==
    [i \in 1..Len(x) |->
        ((x[i] * 1024) % 65536) + (IF i = 1 THEN 0 ELSE x[i - 1] \div 64)]

(* totalGB * 1024 * 1024 * 1024 *)
toBytes(totalGB) == Mul1024(Mul1024(Mul1024(totalGB)))

(* uuid.New().String() *)
NewUUIDs == {<<"0f8b1c2e", "-", "aaaa">>, <<"7d3e9a41", "-", "bbbb">>}

(* random.Seq(32): some string of 32 generated characters *)
RandSeq32 == {[i \in 1..32 |-> "x"], [i \in 1..32 |-> IF i % 2 = 0 THEN "k" ELSE "7"]}

(* the error without the protocol in its message *)
UnsupportedUnnamed(protocol) == [nil |-> FALSE, msg |-> <<"unsupported protocol">>]

(* fmt.Errorf("unsupported protocol: %s", protocol) *)
Unsupported(protocol) ==
    [nil |-> FALSE, msg |-> <<"unsupported protocol", ":", " ", protocol>>]

(* the fields with the generated credential under the other key *)
protocolFieldsSwapped(protocol) ==
    CASE protocol = "vmess" ->
            {("password" :> JStr(u)) @@ ("security" :> J("auto")) @@ ("alterId" :> JNum(0))
                : u \in NewUUIDs}
      [] protocol = "vless" ->
            {("password" :> JStr(u)) @@ ("flow" :> JStr(<< >>)) : u \in NewUUIDs}
      [] protocol = "trojan" ->
            {("id" :> JStr(p)) @@ ("flow" :> JStr(<< >>)) : p \in RandSeq32}
      [] protocol = "shadowsocks" ->
            {("id" :> JStr(p)) : p \in RandSeq32}
      [] OTHER -> {}

(* the fields the protocol switch adds; none in its default branch *)
protocolFields(protocol) ==
    CASE protocol = "vmess" ->
            {("id" :> JStr(u)) @@ ("security" :> J("auto")) @@ ("alterId" :> JNum(0))
                : u \in NewUUIDs}
      [] protocol = "vless" ->
            {("id" :> JStr(u)) @@ ("flow" :> JStr(<< >>)) : u \in NewUUIDs}
      [] protocol = "trojan" ->
            {("password" :> JStr(p)) @@ ("flow" :> JStr(<< >>)) : p \in RandSeq32}
      [] protocol = "shadowsocks" ->
            {("password" :> JStr(p)) : p \in RandSeq32}
      [] OTHER -> {}

(* the results of a call: the client map literal with the fields of the    *)
(* protocol switch, now being time.Now().Unix() * 1000, or the error of    *)
(* the default branch                                                      *)
GenerateClientDefaults(protocol, mail, totalGB, expiryTime, limitIP, tgID, subID) ==
    LET client(now) ==
            ("email" :> JStr(mail)) @@ ("enable" :> JBool(TRUE))
            @@ ("limitIp" :> JNum(limitIP))
            @@ ("totalGB" :> [t |-> "i64", l |-> toBytes(totalGB)])
            @@ ("expiryTime" :> JNum(expiryTime)) @@ ("tgId" :> JNum(tgID))
            @@ ("subId" :> JStr(subID)) @@ ("reset" :> JNum(0))
            @@ ("created_at" :> JNum(now)) @@ ("updated_at" :> JNum(now))
    IN  IF protocol \notin {"vmess", "vless", "trojan", "shadowsocks"}
        THEN {[client |-> Null, err |-> Unsupported(protocol)]}
        ELSE {[client |-> JObj(f @@ client(now)), err |-> [nil |-> TRUE, msg |-> << >>]]
                 : f \in protocolFields(protocol), now \in {1762220000, 1762220001}}

(* no call has been made *)
InitIdle ==
    /\ inbound = ExampleInbound
    /\ email = <<"alice">>
    /\ address = <<"1.2.3.4">>
    /\ pc = "idle"
    /\ op = "none"
    /\ res1 = NoResult
    /\ res2 = NoResult
    /\ gen = Unused
    /\ response = Unused
    /\ web = Unused
    /\ calls = Unused

(* the totalGB arguments are 0, 1, 50, 2^33 - 1, 2^33, 2^34 and 2^34 + 1 *)
CallGenerateClientDefaults ==
    /\ pc = "idle"
    /\ \E protocol \in Protocols, mail \in Emails,
          totalGB \in { <<0, 0, 0, 0>>, <<1, 0, 0, 0>>, <<50, 0, 0, 0>>,
                        <<65535, 65535, 1, 0>>, <<0, 0, 2, 0>>, <<0, 0, 4, 0>>,
                        <<1, 0, 4, 0>> },
          expiryTime \in {0, 86400000}, limitIP \in {0, 2}, tgID \in {0, 42},
          subID \in {<< >>, <<"sub1">>} :
          \E r \in GenerateClientDefaults(protocol, mail, totalGB, expiryTime, limitIP,
                                          tgID, subID) :
              gen' = [kind |-> "gen", protocol |-> protocol, email |-> mail,
                      totalGB |-> totalGB, expiryTime |-> expiryTime,
                      limitIP |-> limitIP, tgID |-> tgID, subID |-> subID,
                      client |-> r.client, err |-> r.err]
    /\ pc' = "generated"
    /\ op' = "GenerateClientDefaults"
    /\ UNCHANGED <<inbound, email, address, res1, res2, response, web, calls>>

SpecGen == InitIdle /\ [][CallGenerateClientDefaults]_vars

----------------------------------------------------------------------------
(* C12: GenerateClientDefaults called with a protocol outside vmess,       *)
(* vless, trojan, shadowsocks returns a nil client and an error whose      *)
(* message names the protocol; for each of the four it returns a client    *)
(* and a nil error.                                                        *)
C12_UnsupportedProtocol ==
    pc = "generated" =>
        IF gen.protocol \in Supported
        THEN gen.client.t = "obj" /\ gen.err.nil
        ELSE /\ gen.client = Null
             /\ ~gen.err.nil
             /\ \E i \in 1..Len(gen.err.msg) : gen.err.msg[i] = gen.protocol

(* the generator was called for a protocol outside the four and answered   *)
(* with an error                                                           *)
C12_Witness == pc = "generated" /\ gen.protocol = "http" /\ ~gen.err.nil

(* C13: the generated client has, for vmess and vless, a generated "id"    *)
(* and no "password"; for trojan and shadowsocks a generated "password" of *)
(* length 32 and no "id"; always enable = true, reset = 0, created_at =    *)
(* updated_at, and email, expiryTime, limitIp, tgId, subId as supplied.    *)
C13_GeneratedClient ==
    (pc = "generated" /\ gen.err.nil) =>
        LET c == gen.client.o
        IN  /\ IF gen.protocol \in {"vmess", "vless"}
               THEN /\ "id" \in DOMAIN c /\ "password" \notin DOMAIN c
                    /\ c["id"] \in {JStr(u) : u \in NewUUIDs}
               ELSE /\ "password" \in DOMAIN c /\ "id" \notin DOMAIN c
                    /\ c["password"].t = "str"
                    /\ Len(c["password"].s) = 32
            /\ c["enable"] = JBool(TRUE)
            /\ c["reset"] = JNum(0)
            /\ c["created_at"] = c["updated_at"]
            /\ c["email"] = JStr(gen.email)
            /\ c["expiryTime"] = JNum(gen.expiryTime)
            /\ c["limitIp"] = JNum(gen.limitIP)
            /\ c["tgId"] = JNum(gen.tgID)
            /\ c["subId"] = JStr(gen.subID)

(* a trojan client was generated with given expiry, ip limit and           *)
(* subscription id                                                         *)
C13_Witness ==
    /\ pc = "generated"
    /\ gen.protocol = "trojan"
    /\ gen.err.nil
    /\ gen.expiryTime # 0
    /\ gen.limitIP # 0
    /\ gen.subID # << >>

(* C14: for every non-negative totalGB the stored totalGB is the product   *)
(* totalGB * 1024^3; it is not negative and not a wrapped value.  The      *)
(* product is taken on six limbs, where it cannot wrap.                    *)
C14_BytesExact ==
    LET IsNegative(l) == l[Len(l)] >= 32768
    IN  (pc = "generated" /\ gen.err.nil /\ ~IsNegative(gen.totalGB)) =>
            LET stored == gen.client.o["totalGB"].l
            IN  /\ ~IsNegative(stored)
                /\ stored \o <<0, 0>> = toBytes(gen.totalGB \o <<0, 0>>)

----------------------------------------------------------------------------
(* addInboundClientWithLink                                                *)
(*                                                                         *)
(* The variable inbound is the stored row of the inbound, email the email  *)
(* of the request.                                                         *)

(* the address: the configured sub domain, else the request's host without *)
(* its port, else "localhost"                                              *)
resolveAddress(subDomain, host) ==
    IF ~subDomain.err /\ subDomain.v # << >>
    THEN subDomain.v
    ELSE LET a == IF host = << >> THEN <<"localhost">> ELSE host
             idx == IndexOf(a, ":")
         IN  IF idx # 0 THEN Before(a, idx) ELSE a

(* inboundService.AddInboundClient: appends the clients of data to the     *)
(* stored row; fails when the stored settings do not decode or an email of *)
(* data is already a client of the row                                     *)
AddInboundClient(stored, data) ==
    LET old == Unmarshal(stored.Settings)
        new == ArrOr(Field(Unmarshal(data.Settings), "clients"))
        had == getClients(stored)
    IN  IF \/ old = Null
           \/ \E i \in 1..Len(new), j \in 1..Len(had) :
                 toClient(new[i]).Email = had[j].Email
        THEN [err |-> TRUE, inbound |-> stored]
        ELSE [err |-> FALSE,
              inbound |-> [stored EXCEPT !.Settings =
                              JObj(Put(old.o, "clients",
                                       JArr(ArrOr(Field(old, "clients")) \o new)))]]

(* jsonMsg(c, msg, err) *)
Failure(msg) == [kind |-> "msg", success |-> FALSE, msg |-> msg]

(* the answers of the handler together with the row it leaves stored.      *)
(* newSettings is settings["clients"] = []any{client} on the decoded       *)
(* settings of the loaded inbound, an empty map when they do not decode;   *)
(* the link is made from the inbound as it was loaded at the start; a      *)
(* panic in GetClientLink leaves the handler without an answer of its own. *)
addInboundClientWithLink(stored, found, mail, req, addr) ==
    LET settings == Unmarshal(stored.Settings)
        newSettings(client) ==
            JObj(Put(IF settings = Null THEN EmptyObj.o ELSE settings.o, "clients",
                     JArr(<<client>>)))
        answer(r, client) ==
            IF r.kind = "panic"
            THEN [kind |-> "panic", success |-> FALSE, msg |-> "panic"]
            ELSE [kind |-> "msg", success |-> TRUE, msg |-> "Client added successfully",
                  link |-> r.out, email |-> mail, client |-> client, loaded |-> stored]
        added(client) ==
            AddInboundClient(stored, [Id |-> 1, Settings |-> newSettings(client)])
    IN  IF mail = << >>
        THEN {[response |-> Failure("Invalid request parameters"), inbound |-> stored]}
        ELSE IF ~found
        THEN {[response |-> Failure("Inbound not found"), inbound |-> stored]}
        ELSE UNION {
            IF ~g.err.nil
            THEN {[response |-> Failure("Failed to generate client"), inbound |-> stored]}
            ELSE IF added(g.client).err
            THEN {[response |-> Failure("Failed to add client"), inbound |-> stored]}
            ELSE {[response |-> answer(r, g.client), inbound |-> added(g.client).inbound]
                     : r \in GetClientLink(stored, mail, addr)}
            : g \in GenerateClientDefaults(stored.Protocol, mail, req.TotalGB,
                                           req.ExpiryTime, req.LimitIP, req.TgID,
                                           req.SubID)}

(* the rows are the inbounds without a remark *)
InitAdd ==
    /\ inbound \in {i \in Inbounds : i.Remark = << >>}
    /\ email \in Emails \cup {<< >>}
    /\ address = << >>
    /\ pc = "idle"
    /\ op = "none"
    /\ res1 = NoResult
    /\ res2 = NoResult
    /\ gen = Unused
    /\ response = Unused
    /\ web = Unused
    /\ calls = Unused

(* req holds the other fields of the AddClientRequest, subDomain is what   *)
(* settingService.GetSubDomain answers, host is c.Request.Host             *)
CallAddInboundClientWithLink ==
    /\ pc = "idle"
    /\ \E found \in BOOLEAN,
          req \in {[TotalGB |-> g, ExpiryTime |-> 0, LimitIP |-> l, TgID |-> 0,
                    SubID |-> <<"sub1">>]
                      : g \in {<<0, 0, 0, 0>>, <<50, 0, 0, 0>>}, l \in {0, 2}},
          subDomain \in {[err |-> FALSE, v |-> << >>],
                         [err |-> FALSE, v |-> <<"sub.example.com">>],
                         [err |-> TRUE, v |-> << >>]},
          host \in {<< >>, <<"1.2.3.4">>, <<"panel.example.com", ":", "2053">>} :
          /\ address' = resolveAddress(subDomain, host)
          /\ \E a \in addInboundClientWithLink(inbound, found, email, req,
                                              resolveAddress(subDomain, host)) :
                /\ response' = a.response
                /\ inbound' = a.inbound
    /\ pc' = "added"
    /\ op' = "addInboundClientWithLink"
    /\ UNCHANGED <<email, res1, res2, gen, web, calls>>

SpecAdd == InitAdd /\ [][CallAddInboundClientWithLink]_vars

(* C16: after addInboundClientWithLink succeeds for an email that was not  *)
(* a client of the inbound, the "link" of the response is a non-empty      *)
(* vless, vmess, trojan or ss link whose credential is the id or password  *)
(* of the client in the same response.                                     *)
C16_LinkOfNewClient ==
    (/\ pc = "added"
     /\ response.success
     /\ clientIndex(TRUE, getClients(response.loaded), email) = 0)
        => /\ Len(response.link) > 0
           /\ LET l == ReadLink(response.link)
                  c == toClient(response.client)
              IN  /\ l.scheme \in {"vless", "vmess", "trojan", "ss"}
                  /\ CredOf(l) = IF l.scheme \in {"vless", "vmess"} THEN c.ID
                                 ELSE c.Password

----------------------------------------------------------------------------
(* The routes under /panel/api and their middleware                        *)
(*                                                                         *)
(* A request is the gin context that travels down the handler chain of the *)
(* route: cookie is the user of the session the request came with, session *)
(* the user the session holds now (session.SetLoginUser sets it), index    *)
(* the position of the next handler of the chain, trace the handlers that  *)
(* have run.                                                               *)

NoUser == "nobody"

(* the api keys of the stored users *)
KnownKeys == {<<"k1">>}

(* UserService.GetUserByApiKey: the user of a stored key; for any other    *)
(* key an error or no user                                                 *)
GetUserByApiKey(apiKey) ==
    IF apiKey \in KnownKeys
    THEN {[err |-> FALSE, user |-> "admin"]}
    ELSE {[err |-> TRUE, user |-> NoUser], [err |-> FALSE, user |-> NoUser]}

(* session.IsLogin *)
IsLogin(c) == c.session # NoUser

(* api.Use(middleware.ApiKeyAuth()); api.Use(a.checkAPIAuth); then the     *)
(* handler of the route                                                    *)
Chain == <<"ApiKeyAuth", "checkAPIAuth", "handler">>

(* c.Next(): the rest of the chain runs *)
cNext(c) == [c EXCEPT !.index = @ + 1]

(* strings.HasPrefix(authHeader, "Bearer ") *)
HasBearer(authHeader) ==
    Len(authHeader) >= 2 /\ authHeader[1] = "Bearer" /\ authHeader[2] = " "

(* the key taken from the Authorization header first *)
apiKeyOfBearerFirst(xApiKey, authHeader) ==
    IF HasBearer(authHeader) THEN SubSeq(authHeader, 3, Len(authHeader)) ELSE xApiKey

(* the api key of a request: X-API-Key, and when that is empty the token   *)
(* of Authorization: Bearer <token>                                        *)
apiKeyOf(xApiKey, authHeader) ==
    IF xApiKey # << >>
    THEN xApiKey
    ELSE IF HasBearer(authHeader)
         THEN SubSeq(authHeader, 3, Len(authHeader))
         ELSE << >>

ApiKeyAuth(c) ==
    IF IsLogin(c)
    THEN {cNext(c)}
    ELSE IF apiKeyOf(c.xApiKey, c.authorization) # << >>
         THEN {IF ~r.err /\ r.user # NoUser
               THEN cNext([c EXCEPT !.session = r.user])
               ELSE cNext(c)
                  : r \in GetUserByApiKey(apiKeyOf(c.xApiKey, c.authorization))}
         ELSE {cNext(c)}

(* c.AbortWithStatus(http.StatusNotFound): no later handler of the chain   *)
(* runs                                                                    *)
checkAPIAuth(c) ==
    IF IsLogin(c)
    THEN cNext(c)
    ELSE [c EXCEPT !.aborted = TRUE, !.status = 404, !.index = Len(Chain) + 1]

(* a request to inbounds.POST("/addClientWithLink"), inbounds.GET("/list") *)
(* or api.GET("/backuptotgbot") arrives                                    *)
Receive ==
    /\ pc = "idle"
    /\ \E route \in {"/panel/api/inbounds/addClientWithLink", "/panel/api/inbounds/list",
                     "/panel/api/backuptotgbot"},
          cookie \in {NoUser, "admin"},
          xApiKey \in {<< >>, <<"k1">>, <<"bad">>},
          authHeader \in {<< >>, <<"Bearer", " ", "k1">>, <<"Bearer", " ", "bad">>,
                          <<"Bearer", " ">>, <<"bearer", " ", "k1">>,
                          <<"Basic", " ", "k1">>} :
          web' = [kind |-> "req", route |-> route, cookie |-> cookie,
                  xApiKey |-> xApiKey, authorization |-> authHeader,
                  session |-> cookie, index |-> 1, aborted |-> FALSE, status |-> 0,
                  ran |-> FALSE, trace |-> << >>]
    /\ pc' = "serving"
    /\ UNCHANGED <<inbound, email, address, op, res1, res2, gen, response, calls>>

(* the handler at web.index runs and leaves the context c *)
Ran(c) ==
    /\ web' = [c EXCEPT !.trace = Append(@, Chain[web.index])]
    /\ UNCHANGED <<inbound, email, address, pc, op, res1, res2, gen, response, calls>>

RunApiKeyAuth ==
    /\ pc = "serving"
    /\ web.index = 1
    /\ \E c \in ApiKeyAuth(web) : Ran(c)

RunCheckAPIAuth ==
    /\ pc = "serving"
    /\ web.index = 2
    /\ Ran(checkAPIAuth(web))

(* the handler of the route writes its answer *)
RunRouteHandler ==
    /\ pc = "serving"
    /\ web.index = 3
    /\ Ran(cNext([web EXCEPT !.ran = TRUE, !.status = 200]))

SpecApi ==
    InitIdle /\ [][Receive \/ RunApiKeyAuth \/ RunCheckAPIAuth \/ RunRouteHandler]_vars

----------------------------------------------------------------------------
(* Encode calls running concurrently on one inbound                        *)
(*                                                                         *)
(* A call first checks the protocol and decodes Settings and               *)
(* StreamSettings into maps of its own, later reads Port and Remark and    *)
(* returns. calls.given is the inbound as it was handed to the calls.      *)

Callers == {1, 2}

(* an encoder that stores the remark it computed in the inbound *)
leavesRemark(inb, mail) == [inb EXCEPT !.Remark = @ \o <<"-">> \o mail]

(* the inbound after a part of a call: the encoders assign to no field of  *)
(* it and to no variable outside the call                                  *)
leaves(inb, mail) == inb

NotCalled == [pc |-> "idle", f |-> "none", mail |-> << >>, loaded |-> Unused,
              res |-> NoResult, overlapped |-> FALSE]

(* the inbounds are the example and those whose links carry random picks *)
InitConc ==
    /\ inbound \in
          {ExampleInbound}
          \cup {i \in Inbounds :
                   /\ i.Protocol \in {"vless", "vmess"}
                   /\ i.Settings = SettingsOf(<<Client("alice", <<"9cf47c17">>)>>,
                                              Method2022)
                   /\ StrOr(Field(i.StreamSettings, "security")) = <<"reality">>
                   /\ Len(ArrOr(Field(i.StreamSettings, "externalProxy"))) = 0}
    /\ email = <<"alice">>
    /\ address = <<"1.2.3.4">>
    /\ pc = "idle"
    /\ op = "none"
    /\ res1 = NoResult
    /\ res2 = NoResult
    /\ gen = Unused
    /\ response = Unused
    /\ web = Unused
    /\ calls = [given |-> inbound, c |-> [i \in Callers |-> NotCalled]]

(* call i starts: protocol check and decoding into copies of its own *)
Enter(i) ==
    /\ calls.c[i].pc = "idle"
    /\ \E f \in Encoders \cup Dispatchers, mail \in Emails :
          /\ calls' = [calls EXCEPT !.c[i] =
                          [NotCalled EXCEPT
                              !.pc = "decoded", !.f = f, !.mail = mail,
                              !.loaded = [Protocol |-> inbound.Protocol,
                                          Settings |-> inbound.Settings,
                                          StreamSettings |-> inbound.StreamSettings]]]
          /\ inbound' = leaves(inbound, mail)
    /\ UNCHANGED <<email, address, pc, op, res1, res2, gen, response, web>>

(* call i reads Port and Remark, builds its links and returns *)
Return(i) ==
    /\ calls.c[i].pc = "decoded"
    /\ \E r \in Outcomes(calls.c[i].f,
                         [Protocol |-> calls.c[i].loaded.Protocol,
                          Port |-> inbound.Port, Remark |-> inbound.Remark,
                          Settings |-> calls.c[i].loaded.Settings,
                          StreamSettings |-> calls.c[i].loaded.StreamSettings],
                         calls.c[i].mail, address) :
          calls' = [calls EXCEPT !.c[i].pc = "returned", !.c[i].res = r,
                                 !.c[i].overlapped =
                                     \E j \in Callers \ {i} : calls.c[j].pc = "decoded"]
    /\ inbound' = leaves(inbound, calls.c[i].mail)
    /\ UNCHANGED <<email, address, pc, op, res1, res2, gen, response, web>>

SpecConc ==
    InitConc /\ [][(\E i \in Callers : Enter(i)) \/ (\E i \in Callers : Return(i))]_vars

----------------------------------------------------------------------------
(* The tls parameters of a link *)

(* C21: for a call that returns a single link (no external proxies), with  *)
(* security "tls" the link carries alpn exactly when the ALPN list is      *)
(* non-empty, its value the list joined with commas, sni exactly when a    *)
(* serverName field is present in tlsSettings, fp and allowInsecure        *)
(* exactly when a fingerprint / allowInsecure field is present in          *)
(* tlsSettings; with a security other than "tls" and "reality" the link    *)
(* carries none of the four.                                               *)
C21_TlsParams ==
    (Linked /\ Len(ExternalProxies) = 0) =>
        LET l == Links(res1)[1]
            has(k) == k \in DOMAIN l.params
            tlsSetting == AsMap(Field(Unmarshal(inbound.StreamSettings), "tlsSettings"))
            alpns == ArrOr(Field(tlsSetting, "alpn"))
            present(k) == \E r \in searchKey(tlsSetting, k) : r.ok
        IN  /\ StreamSecurity = <<"tls">> =>
                   /\ has("alpn") <=> Len(alpns) > 0
                   /\ has("alpn") =>
                          l.params["alpn"]
                              = Join([i \in 1..Len(alpns) |-> StrOr(alpns[i])], <<",">>)
                   /\ has("sni") <=> present("serverName")
                   /\ has("fp") <=> present("fingerprint")
                   /\ has("allowInsecure") <=> present("allowInsecure")
            /\ StreamSecurity \notin {<<"tls">>, <<"reality">>} =>
                   ~has("alpn") /\ ~has("sni") /\ ~has("fp") /\ ~has("allowInsecure")


----------------------------------------------------------------------------
(* The client of a link *)

(* C22: the client used for a link is the first client in the Settings     *)
(* list whose email equals the requested email exactly, letter case        *)
(* included: when no client has exactly that email the encoder returns the *)
(* empty string, and otherwise it returns what it returns for the inbound  *)
(* that holds the lowest-index such client alone.                          *)
C22_FirstExactClient ==
    (Matched /\ res1.kind = "ret") =>
        LET settings == Unmarshal(inbound.Settings)
            stored == ArrOr(Field(settings, "clients"))
            exact == {i \in 1..Len(stored) : Field(stored[i], "email") = JStr(email)}
            first == CHOOSE i \in exact : \A j \in exact : i <= j
            alone == [inbound EXCEPT !.Settings =
                         JObj(("clients" :> JArr(<<stored[first]>>)) @@ @.o)]
        IN  IF exact = {} THEN res1.out = << >>
            ELSE \E r \in Outcomes(op, alone, email, address) :
                     r.kind = "ret" /\ r.out = res1.out

(* a link came back for an email that two clients with different ids have *)
(* and that a client before them has in another letter case, and the same *)
(* request on the inbound holding only that earlier client                *)
(* returns the empty string                                               *)
C22_Witness ==
    /\ Linked
    /\ LET stored == ArrOr(Field(Unmarshal(inbound.Settings), "clients"))
           Lower(v) == IF v = J("Alice") THEN J("alice") ELSE v
       IN  \E i, j, k \in 1..Len(stored) :
               /\ i < j /\ j < k
               /\ Field(stored[i], "email") # JStr(email)
               /\ Lower(Field(stored[i], "email")) = JStr(email)
               /\ Field(stored[j], "email") = JStr(email)
               /\ Field(stored[k], "email") = JStr(email)
               /\ Field(stored[j], "id") # Field(stored[k], "id")
               /\ Field(stored[i], "id") # Field(stored[j], "id")


----------------------------------------------------------------------------
(* The helper functions on their own: searchKey and genRemark applied to   *)
(* arguments drawn from small sets.                                        *)

(* searchKey(data, key) on trees that hold the key at the top, nested in   *)
(* objects, inside lists, twice, with a nil value, or not at all           *)
CallSearchKey ==
    LET Trees ==
            { Null, J("fingerprint"), JNum(1), EmptyObj, JArr(<< >>),
              JObj("fingerprint" :> J("chrome")),
              JObj("fingerprint" :> Null),
              JObj("settings" :> JObj("fingerprint" :> J("chrome"))),
              JObj("a" :> JArr(<<J("x"), JObj("fingerprint" :> J("firefox"))>>)),
              JObj(("fingerprint" :> J("chrome"))
                   @@ ("settings" :> JObj("fingerprint" :> J("firefox")))),
              JArr(<<JArr(<<JObj("settings" :> JObj("fingerprint" :> J("safari")))>>)>>),
              JArr(<<JObj("fingerprint" :> J("a1")), JObj("fingerprint" :> J("a2"))>>),
              JObj(("alpn" :> JArr(<<J("h2")>>)) @@ ("serverName" :> J("example.com"))) }
        Keys == {"fingerprint", "settings", "absent"}
    IN  /\ pc = "idle"
        /\ \E data \in Trees, key \in Keys :
               \E r \in searchKey(data, key) :
                   response' = [kind |-> "searchKey", data |-> data, key |-> key,
                                found |-> r.ok, value |-> r.v]
        /\ pc' = "called"
        /\ UNCHANGED <<inbound, email, address, op, res1, res2, gen, web, calls>>

(* genRemark of web/util/link.go on empty and non-empty parts *)
CallGenRemark ==
    /\ pc = "idle"
    /\ \E remark \in {<< >>, <<"srv">>, <<"my", "srv">>}, mail \in {<< >>, <<"alice">>},
          extra \in {<< >>, <<"e1">>} :
           response' = [kind |-> "genRemark", remark |-> remark, mail |-> mail,
                        extra |-> extra, showInfo |-> FALSE,
                        out |-> genRemark([ExampleInbound EXCEPT !.Remark = remark],
                                          mail, extra)]
    /\ pc' = "called"
    /\ UNCHANGED <<inbound, email, address, op, res1, res2, gen, web, calls>>

(* genRemark of the controller, without and with live info.  The clock     *)
(* reads Now seconds; the expiry times, in milliseconds, are 0, negative   *)
(* ones of 30 minutes, 90 minutes, 2 hours, 1 day and 1 day 2 hours, and   *)
(* positive ones 30 minutes, 2 hours, 1 day and 1 day 1 hour after Now and *)
(* 15 minutes before Now.                                                  *)
CallGenRemarkCtl ==
    LET Now == 1000
        Expiries == {0, 0 - 1800000, 0 - 5400000, 0 - 7200000, 0 - 86400000, 0 - 93600000,
                     2800000, 8200000, 87400000, 91000000, 100000}
        Record(mail, enable, total, up, expiry) ==
            [Email |-> mail, Enable |-> enable, Total |-> total, Up |-> up, Down |-> up,
             ExpiryTime |-> expiry]
        Records == {Record(<<"alice">>, en, q[1], q[2], x)
                       : en \in BOOLEAN, q \in {<<0, 0>>, <<1000, 100>>}, x \in Expiries}
        StatsLists == {<< >>} \cup {<<r>> : r \in Records}
                      \cup {<<Record(<<"bob">>, TRUE, 0, 0, 0 - 7200000), r>> : r \in Records}
    IN  /\ pc = "idle"
        /\ \E remark \in {<< >>, <<"srv">>}, mail \in {<< >>, <<"alice">>},
              extra \in {<< >>, <<"e1">>}, clientStats \in StatsLists, showInfo \in BOOLEAN :
               response' = [kind |-> "genRemarkCtl", remark |-> remark, mail |-> mail,
                            extra |-> extra, clientStats |-> clientStats,
                            showInfo |-> showInfo, now |-> Now,
                            out |-> genRemarkCtl([ExampleInbound EXCEPT !.Remark = remark],
                                                 mail, extra, clientStats, showInfo, Now)]
        /\ pc' = "called"
        /\ UNCHANGED <<inbound, email, address, op, res1, res2, gen, web, calls>>

SpecFn == InitIdle /\ [][CallSearchKey \/ CallGenRemark \/ CallGenRemarkCtl]_vars

(* C23: searchKey returns found = true exactly when the key is a field     *)
(* name of some object anywhere in the tree, at any depth and inside       *)
(* lists, and then the value is that of one such field; for an absent key, *)
(* a scalar or a nil tree it returns (nil, false).                         *)
C23_SearchKey ==
    response.kind = "searchKey" =>
        LET RECURSIVE Members(_)
            (* the fields, as <<name, value>>, of all objects in a tree *)
            Members(t) ==
                CASE t.t = "obj" ->
                        {<<k, t.o[k]>> : k \in DOMAIN t.o}
                        \cup UNION {Members(t.o[k]) : k \in DOMAIN t.o}
                  [] t.t = "arr" -> UNION {Members(t.a[i]) : i \in 1..Len(t.a)}
                  [] OTHER -> {}
            named == {m \in Members(response.data) : m[1] = response.key}
        IN  /\ response.found <=> named # {}
            /\ response.found => <<response.key, response.value>> \in named
            /\ ~response.found => response.value = Null

(* the key was found in an object that is an element of a list, below the  *)
(* top of the tree                                                         *)
C23_Witness ==
    /\ response.kind = "searchKey"
    /\ response.found
    /\ response.data.t = "obj"
    /\ response.key \notin DOMAIN response.data.o
    /\ \E k \in DOMAIN response.data.o :
           /\ response.data.o[k].t = "arr"
           /\ \E i \in 1..Len(response.data.o[k].a) :
                  /\ response.data.o[k].a[i].t = "obj"
                  /\ response.key \in DOMAIN response.data.o[k].a[i].o


----------------------------------------------------------------------------
(* The host of a ws, httpupgrade or xhttp link *)

(* C24: for the transports ws, httpupgrade and xhttp the host of a link is *)
(* the transport's own "host" when that is a non-empty string, and         *)
(* otherwise the value the headers map holds under a key equal to "host"   *)
(* ignoring case: a string as it is, the first element of a list, and the  *)
(* empty string for an empty list or when there is no such key.            *)
C24_HostOfLink ==
    LET stream == Unmarshal(inbound.StreamSettings)
        network == StrOr(Field(stream, "network"))
        sobj == AsMap(Field(stream, network[1] \o "Settings"))
        own == Field(sobj, "host")
        headers == AsMap(Field(sobj, "headers"))
        named == IF headers.t = "obj"
                 THEN {k \in DOMAIN headers.o : k \in {"host", "Host", "HOST"}}
                 ELSE {}
        valueOf(v) == IF v.t = "arr" THEN (IF Len(v.a) > 0 THEN StrOr(v.a[1]) ELSE << >>)
                      ELSE StrOr(v)
        hostOf(l) == IF "host" \in DOMAIN l.params THEN l.params["host"] ELSE << >>
    IN  (Linked /\ network \in {<<"ws">>, <<"httpupgrade">>, <<"xhttp">>}) =>
            \A i \in 1..Len(Links(res1)) :
                LET host == hostOf(Links(res1)[i])
                IN  IF own.t = "str" /\ Len(own.s) > 0 THEN host = own.s
                    ELSE IF named = {} THEN host = << >>
                    ELSE \E k \in named : host = valueOf(headers.o[k])

(* a link came back whose host is the string the headers hold under "Host" *)
(* while the transport's own host is empty                                 *)
C24_Witness ==
    /\ Linked
    /\ LET stream == Unmarshal(inbound.StreamSettings)
           network == StrOr(Field(stream, "network"))
       IN  /\ network \in {<<"ws">>, <<"httpupgrade">>, <<"xhttp">>}
           /\ LET sobj == AsMap(Field(stream, network[1] \o "Settings"))
              IN  /\ Field(sobj, "host") = JStr(<< >>)
                  /\ Field(AsMap(Field(sobj, "headers")), "Host").t = "str"
                  /\ "host" \in DOMAIN Links(res1)[1].params
                  /\ Links(res1)[1].params["host"]
                         = Field(AsMap(Field(sobj, "headers")), "Host").s
                  /\ Len(Links(res1)[1].params["host"]) > 0


----------------------------------------------------------------------------
(* The remark *)

(* C25: without live info genRemark returns the non-empty ones of inbound  *)
(* remark, email and extra, in that order, joined by exactly one separator *)
(* ("-" in web/util/link.go, " " in the controller): no separator at the   *)
(* start or the end, none doubled, and the empty string when all three are *)
(* empty.                                                                  *)
C25_RemarkParts ==
    (response.kind \in {"genRemark", "genRemarkCtl"} /\ ~response.showInfo) =>
        LET sep == IF response.kind = "genRemark" THEN "-" ELSE " "
            all == <<response.remark, response.mail, response.extra>>
            parts == SelectSeq(all, LAMBDA x : Len(x) > 0)
            out == response.out
            seps == {i \in 1..Len(out) : out[i] = sep}
        IN  /\ out = Join(parts, <<sep>>)
            /\ parts = << >> => out = << >>
            /\ Cardinality(seps) = IF Len(parts) = 0 THEN 0 ELSE Len(parts) - 1
            /\ \A i \in seps : i # 1 /\ i # Len(out) /\ (i + 1) \notin seps

(* a remark came back for an empty inbound remark with a non-empty email   *)
(* and a non-empty extra                                                   *)
C25_Witness ==
    /\ response.kind \in {"genRemark", "genRemarkCtl"}
    /\ ~response.showInfo
    /\ response.remark = << >>
    /\ Len(response.mail) > 0
    /\ Len(response.extra) > 0
    /\ Len(response.out) = Len(response.mail) + 1 + Len(response.extra)

(* C26: with live info and a matching enabled traffic record, the          *)
(* remaining-time suffix shows only non-negative numbers, and for a        *)
(* negative expiry time it is computed from the magnitude                  *)
(* |ExpiryTime / 1000|: "dD,hH" when days > 0 and hours > 0, "dD" when     *)
(* days > 0 and hours = 0, "hH" when days = 0 and hours > 0, and "mM"      *)
(* otherwise.                                                              *)
C26_RemainingTime ==
    (/\ response.kind = "genRemarkCtl"
     /\ response.showInfo
     /\ \E i \in 1..Len(response.clientStats) :
            response.clientStats[i].Email = response.mail) =>
        LET found == {i \in 1..Len(response.clientStats) :
                         response.clientStats[i].Email = response.mail}
            stats == response.clientStats[CHOOSE i \in found : \A j \in found : i <= j]
            out == response.out
            mag == (0 - stats.ExpiryTime) \div 1000
            days == mag \div 86400
            hours == (mag % 86400) \div 3600
            minutes == (mag % 3600) \div 60
            suffix == IF days > 0 /\ hours > 0
                      THEN <<ToString(days), "D", ",", ToString(hours), "H", "[hourglass]">>
                      ELSE IF days > 0 THEN <<ToString(days), "D", "[hourglass]">>
                      ELSE IF hours > 0 THEN <<ToString(hours), "H", "[hourglass]">>
                      ELSE <<ToString(minutes), "M", "[hourglass]">>
        IN  stats.Enable =>
                /\ \A i \in 1..Len(out) : out[i] \notin {ToString(0 - n) : n \in 1..100}
                /\ stats.ExpiryTime < 0 =>
                       /\ Len(out) >= Len(suffix)
                       /\ SubSeq(out, Len(out) - Len(suffix) + 1, Len(out)) = suffix
                       /\ Len(out) > Len(suffix) => out[Len(out) - Len(suffix)] = " "


----------------------------------------------------------------------------
(* createClientWithConfig                                                  *)
(*                                                                         *)
(* The variable inbound is the stored row of the inbound, email the email  *)
(* of the request.                                                         *)

(* the outcomes of the handler: its answer, the row it leaves stored,      *)
(* whether AddInboundClient was called (reached) and succeeded (added),    *)
(* and whether xrayService.SetToNeedRestart was called (restart).  bound   *)
(* is whether ShouldBindJSON succeeded, found and reloaded whether the     *)
(* first and the second GetInbound succeeded, needRestart what             *)
(* AddInboundClient reports when it succeeds.  clientData is text made by  *)
(* fmt.Sprintf: it does not parse when a string of the request holds a     *)
(* double quote.  nowTs is kept in seconds.  The link of the sub service   *)
(* is the one getLink makes; a panic there leaves the handler without an   *)
(* answer of its own.                                                      *)
createClientWithConfig(stored, bound, found, reloaded, needRestart, mail, req, host) ==
    LET RandSeq10 == {<<"rnd10-a">>, <<"rnd10-b">>}
        nowTs == 1762220000
        out(answer, row, reached, added, restart) ==
            [response |-> answer, inbound |-> row, reached |-> reached, added |-> added,
             restart |-> restart]
        rejected(msg) == {out(Failure(msg), stored, FALSE, FALSE, FALSE)}
        rest == ("email" :> JStr(mail)) @@ ("limitIp" :> JNum(req.LimitIP))
                @@ ("totalGB" :> JNum(req.TotalGB)) @@ ("expiryTime" :> JNum(req.ExpiryTime))
                @@ ("enable" :> JBool(req.Enable)) @@ ("tgId" :> JStr(req.TgID))
                @@ ("subId" :> JStr(req.SubID)) @@ ("comment" :> JStr(req.Comment))
                @@ ("reset" :> JNum(req.Reset))
                @@ ("created_at" :> JNum(nowTs)) @@ ("updated_at" :> JNum(nowTs))
        generated ==
            CASE stored.Protocol = "vmess" ->
                    {[clientID |-> u, password |-> << >>,
                      client |-> ("id" :> JStr(u)) @@ ("security" :> J("auto")) @@ rest]
                        : u \in NewUUIDs}
              [] stored.Protocol = "vless" ->
                    {[clientID |-> u, password |-> << >>,
                      client |-> ("id" :> JStr(u)) @@ ("flow" :> JStr(req.Flow)) @@ rest]
                        : u \in NewUUIDs}
              [] stored.Protocol = "trojan" ->
                    {[clientID |-> << >>, password |-> q,
                      client |-> ("password" :> JStr(q)) @@ rest] : q \in RandSeq10}
              [] stored.Protocol = "shadowsocks" ->
                    {[clientID |-> << >>, password |-> q,
                      client |-> ("password" :> JStr(q)) @@ rest] : q \in RandSeq32}
              [] OTHER -> {}
        quoted(str) == \E i \in 1..Len(str) : str[i] = "\""
        texts == {mail, req.TgID, req.SubID, req.Comment}
                 \cup (IF stored.Protocol = "vless" THEN {req.Flow} ELSE {})
        settings == Unmarshal(stored.Settings)
        newSettings(client) ==
            JObj(Put(settings.o, "clients",
                     JArr(ArrOr(Field(settings, "clients")) \o <<JObj(client)>>)))
        answer(g, r) ==
            IF r.kind = "panic"
            THEN [kind |-> "panic", success |-> FALSE, msg |-> "panic"]
            ELSE [kind |-> "msg", success |-> TRUE, msg |-> "", email |-> mail,
                  link |-> r.out, uuid |-> g.clientID, password |-> g.password]
        finish(g, a) ==
            IF ~reloaded
            THEN {out(Failure("Failed to reload inbound"), a.inbound, TRUE, TRUE, FALSE)}
            ELSE {out(answer(g, r), a.inbound, TRUE, TRUE, r.kind # "panic" /\ needRestart)
                     : r \in getLink(a.inbound, host, mail)}
        add(g) ==
            LET a == AddInboundClient(stored, [Id |-> 1, Settings |-> newSettings(g.client)])
            IN  IF a.err
                THEN {out(Failure("Failed to add client"), stored, TRUE, FALSE, FALSE)}
                ELSE finish(g, a)
    IN  IF ~bound THEN rejected("Invalid request data")
        ELSE IF mail = << >> THEN rejected("Email is required")
        ELSE IF ~found THEN rejected("Failed to get inbound")
        ELSE IF generated = {} THEN rejected("Unsupported protocol")
        ELSE IF stored.Settings = InvalidJSON
        THEN rejected("Failed to parse inbound settings")
        ELSE IF \E str \in texts : quoted(str) THEN rejected("Failed to parse client data")
        ELSE UNION {add(g) : g \in generated}

(* req holds the other fields of the request body; host is the configured  *)
(* sub domain or, when that is empty, c.Request.Host                       *)
CallCreateClientWithConfig ==
    /\ pc = "idle"
    /\ \E bound \in BOOLEAN, found \in BOOLEAN, reloaded \in BOOLEAN, needRestart \in BOOLEAN,
          req \in {[LimitIP |-> 2, TotalGB |-> 0, ExpiryTime |-> 0, Enable |-> TRUE,
                    TgID |-> << >>, SubID |-> <<"sub1">>, Flow |-> << >>, Comment |-> c,
                    Reset |-> 0] : c \in {<< >>, <<"say ", "\"", "hi", "\"">>}},
          host \in {<<"sub.example.com">>, <<"panel.example.com", ":", "2053">>} :
          /\ address' = host
          /\ \E a \in createClientWithConfig(inbound, bound, found, reloaded, needRestart,
                                             email, req, host) :
                /\ response' = a.response
                /\ inbound' = a.inbound
                /\ web' = [kind |-> "created", before |-> inbound, reached |-> a.reached,
                           added |-> a.added, needRestart |-> a.added /\ needRestart,
                           restart |-> a.restart]
    /\ pc' = "created"
    /\ op' = "createClientWithConfig"
    /\ UNCHANGED <<email, res1, res2, gen, calls>>

SpecCreate == InitAdd /\ [][CallCreateClientWithConfig]_vars

(* C27: whenever AddInboundClient succeeded and reported needRestart =     *)
(* true, SetToNeedRestart has been called when the handler returns, on     *)
(* every path, the one where reloading the inbound fails included; and it  *)
(* is not called when AddInboundClient failed or was not reached.          *)
C27_RestartSignalled ==
    (pc = "created" /\ response.kind = "msg") =>
        /\ (web.added /\ web.needRestart) => web.restart
        /\ ~web.added => ~web.restart

(* C28: when createClientWithConfig answers with success = false the       *)
(* stored client list of the inbound is as it was before the call; and an  *)
(* empty email, an unknown inbound id, an unsupported protocol and         *)
(* unparsable client data are rejected before AddInboundClient is called.  *)
C28_FailureLeavesClients ==
    (pc = "created" /\ response.kind = "msg" /\ ~response.success) =>
        /\ inbound.Settings = web.before.Settings
        /\ response.msg \in {"Email is required", "Failed to get inbound",
                              "Unsupported protocol", "Failed to parse client data"}
               => ~web.reached


----------------------------------------------------------------------------
(* updateUser                                                              *)
(*                                                                         *)
(* web holds the user row of the database (stored) and, for each of the    *)
(* browser sessions that are logged in, the user its session holds;        *)
(* calls holds the last request and what it found.  A password hash is     *)
(* written [hash |-> p]: crypto.CheckPasswordHash(h, p) holds exactly for  *)
(* the hash made from p.                                                   *)

(* the outcomes of the handler for the session user `user`: its answer,    *)
(* the stored row and the session user it leaves, and whether              *)
(* userService.UpdateUser succeeded (updated).  bound is whether           *)
(* c.ShouldBind succeeded; failed is whether UpdateUser returns an error,  *)
(* which leaves the row as it was.                                         *)
updateUser(stored, user, bound, form, failed) ==
    LET HashPasswordAsBcrypt(password) == [hash |-> password]
        CheckPasswordHash(hash, password) == hash = HashPasswordAsBcrypt(password)
        jsonMsg(msg, err) == [kind |-> "msg", success |-> ~err, msg |-> msg]
        out(answer, row, sessionUser, updated) ==
            [response |-> answer, stored |-> row, user |-> sessionUser, updated |-> updated]
    IN  IF ~bound
        THEN out(jsonMsg("pages.settings.toasts.modifySettings", TRUE), stored, user, FALSE)
        ELSE IF \/ user.Username # form.OldUsername
                \/ ~CheckPasswordHash(user.Password, form.OldPassword)
        THEN out(jsonMsg("pages.settings.toasts.modifyUserError", TRUE), stored, user, FALSE)
        ELSE IF form.NewUsername = << >> \/ form.NewPassword = << >>
        THEN out(jsonMsg("pages.settings.toasts.modifyUserError", TRUE), stored, user, FALSE)
        ELSE IF failed
        THEN out(jsonMsg("pages.settings.toasts.modifyUser", TRUE), stored, user, FALSE)
        ELSE out(jsonMsg("pages.settings.toasts.modifyUser", FALSE),
                 [stored EXCEPT !.Username = form.NewUsername,
                                !.Password = HashPasswordAsBcrypt(form.NewPassword)],
                 [user EXCEPT !.Username = form.NewUsername,
                              !.Password = HashPasswordAsBcrypt(form.NewPassword)],
                 TRUE)

(* two browsers are logged in as the one user of the panel *)
InitUser ==
    LET admin == [Id |-> 1, Username |-> <<"admin">>, Password |-> [hash |-> <<"pw1">>]]
    IN  /\ inbound = ExampleInbound
        /\ email = <<"alice">>
        /\ address = <<"1.2.3.4">>
        /\ pc = "idle"
        /\ op = "none"
        /\ res1 = NoResult
        /\ res2 = NoResult
        /\ gen = Unused
        /\ response = Unused
        /\ web = [kind |-> "users", stored |-> admin, session |-> <<admin, admin>>]
        /\ calls = Unused

(* one POST /setting/updateUser from one of the sessions *)
CallUpdateUser ==
    /\ \E i \in {1, 2}, bound \in BOOLEAN, failed \in BOOLEAN,
          form \in [OldUsername : {<<"admin">>, <<"root">>}, OldPassword : {<<"pw1">>, <<"pw2">>},
                    NewUsername : {<< >>, <<"admin">>, <<"root">>},
                    NewPassword : {<< >>, <<"pw1">>, <<"pw2">>}] :
          LET a == updateUser(web.stored, web.session[i], bound, form, failed)
          IN  /\ response' = a.response
              /\ web' = [web EXCEPT !.stored = a.stored, !.session[i] = a.user]
              /\ calls' = [kind |-> "updateUser", i |-> i, form |-> form,
                           stored |-> web.stored, user |-> web.session[i],
                           updated |-> a.updated]
    /\ pc' = "updated"
    /\ op' = "updateUser"
    /\ UNCHANGED <<inbound, email, address, res1, res2, gen>>

SpecUser == InitUser /\ [][CallUpdateUser]_vars

(* C29: updateUser changes the stored credentials only when the old        *)
(* username of the form equals the username of the logged-in user, the old *)
(* password verifies against the stored hash, and the new username and the *)
(* new password are both non-empty; on a rejection neither the stored user *)
(* nor the session user changes; and the session user becomes the new      *)
(* username with the hash of the new password exactly when                 *)
(* userService.UpdateUser succeeded.                                       *)
C29_UpdateUser ==
    pc = "updated" =>
        LET form == calls.form
            renewed == [calls.user EXCEPT !.Username = form.NewUsername,
                                          !.Password = [hash |-> form.NewPassword]]
        IN  /\ web.stored # calls.stored =>
                   /\ form.OldUsername = calls.user.Username
                   /\ calls.stored.Password = [hash |-> form.OldPassword]
                   /\ form.NewUsername # << >>
                   /\ form.NewPassword # << >>
            /\ ~response.success =>
                   web.stored = calls.stored /\ web.session[calls.i] = calls.user
            /\ IF calls.updated THEN web.session[calls.i] = renewed
                ELSE web.session[calls.i] = calls.user


----------------------------------------------------------------------------
(* The two copies of the encoders *)

(* C30: when GetClientLink of web/util/link.go and getLink of the          *)
(* controller both return on the same inbound, email and address, and the  *)
(* security is not reality, they return the same number of links, and the  *)
(* links agree one by one in scheme, credential, host, port and in the set *)
(* of query parameters or JSON fields with their values; the remarks       *)
(* differ at most in the separator, "-" in one and " " in the other.       *)
C30_CopiesAgree ==
    (/\ pc # "idle"
     /\ op = "GetClientLink"
     /\ res1.kind = "ret"
     /\ StreamSecurity # <<"reality">>) =>
        \A r \in getLink(inbound, address, email) :
            r.kind = "ret" =>
                LET a == Links(res1)
                    b == Links(r)
                    spaced(str) == [i \in 1..Len(str) |-> IF str[i] = "-" THEN " " ELSE str[i]]
                    fields(l) == DOMAIN l.params \ {"ps"}
                IN  IF Len(res1.out) = 0 \/ Len(r.out) = 0 THEN res1.out = r.out
                    ELSE /\ Len(a) = Len(b)
                         /\ \A i \in 1..Len(a) :
                                /\ a[i].scheme = b[i].scheme
                                /\ a[i].cred = b[i].cred
                                /\ a[i].host = b[i].host
                                /\ a[i].port = b[i].port
                                /\ fields(a[i]) = fields(b[i])
                                /\ \A k \in fields(a[i]) : a[i].params[k] = b[i].params[k]
                                /\ spaced(a[i].remark) = spaced(b[i].remark)

====
